---- MODULE Spec2Model ----
(***************************************************************************)
(* transviz UI: the differential tensor codec (utils/diffHelpers), the     *)
(* tensor store that applies its diffs (stores/tensorStore), and the       *)
(* properties the specification states about them.                         *)
(*                                                                         *)
(* Typed arrays are sequences: the JavaScript element i is element i + 1   *)
(* of the sequence.  Element values are small integers, which Float32Array *)
(* and Int32Array hold exactly, and thresholds are integers of the same    *)
(* unit, so that a delta can be below, equal to and above a threshold.     *)
(***************************************************************************)
EXTENDS Integers, Sequences, FiniteSets, TLC

\* ------------------------------------------------------------------ bounds
MaxVal == 1
MaxElems == 2
MaxThreshold == 1
MaxDiffLen == 2
MaxVersion == 2
MaxSockets == 6
MaxSends == 3
MaxFrames == 2
MaxObservers == 2
MaxMetrics == 2
MaxUpdates == 2

\* Scalars, vectors and matrices.
Ranks == 0..2

Vals == 0..MaxVal

\* shape.reduce((a, b) => a * b, 1)
RECURSIVE Product(_)
Product(shape) ==
  IF Len(shape) = 0 THEN 1 ELSE Head(shape) * Product(Tail(shape))

SeqsUpTo(S, n) == UNION {[1..k -> S] : k \in 0..n}

\* The shapes of the model: positive dimensions, at most MaxElems elements.
Shapes ==
  {s \in UNION {[1..r -> 1..MaxElems] : r \in Ranks} : Product(s) <= MaxElems}

\* The dense buffers of a shape.
Buffers(shape) == [1..Product(shape) -> Vals]

\* options of generateDiff: threshold, and maxSparsity as a fraction num/den.
Thresholds == 0..MaxThreshold
MaxSparsities == {[num |-> 1, den |-> 2], [num |-> 1, den |-> 4], [num |-> 1, den |-> 1]}
Options == [threshold : Thresholds, maxSparsity : MaxSparsities]
\* const { threshold = 0.01, maxSparsity = 0.5 } = options: on integer data a
\* threshold of 0.01 separates the same deltas as a threshold of 0.
DefaultOptions == [threshold |-> 0, maxSparsity |-> [num |-> 1, den |-> 2]]

Abs(x) == IF x < 0 THEN -x ELSE x

\* ------------------------------------------------------------ diffHelpers
DIFF_TYPES == [SPARSE |-> "sparse", DENSE |-> "dense", RANGE |-> "range"]

\* generateDiff's "return null"
Null == [type |-> "null"]

\* lastHit: null, a value that is no time.
NoHit == -1

HasField(r, f) == f \in DOMAIN r

\* A store to a typed array: an index that is no element of the array (negative,
\* past the end, NaN) is ignored.
TypedArrayStore(arr, index, v) ==
  IF index \in 0..(Len(arr) - 1) THEN [arr EXCEPT ![index + 1] = v] ELSE arr

\* strides[d] of applySparseUpdate, d counted from 0: strides[rank - 1] = 1,
\* strides[i] = strides[i + 1] * shape[i + 1].
Stride(shape, d) == Product(SubSeq(shape, d + 2, Len(shape)))

\* diff.indices[j * rank + d] read past the end of the array is undefined, and
\* undefined * stride is NaN: the sum is NaN.
IndexIsNaN(indices, j, rank) ==
  \E d \in 0..(rank - 1) : j * rank + d >= Len(indices)

RECURSIVE IndexSum(_, _, _, _)
IndexSum(indices, j, shape, d) ==
  IF d >= Len(shape) THEN 0
  ELSE indices[j * Len(shape) + d + 1] * Stride(shape, d)
         + IndexSum(indices, j, shape, d + 1)

\* The inner loop of applySparseUpdate from pair j on.
RECURSIVE SparseLoop(_, _, _, _)
SparseLoop(targetData, diff, shape, j) ==
  IF j >= Len(diff.indices) THEN targetData
  ELSE SparseLoop(
         IF IndexIsNaN(diff.indices, j, Len(shape)) THEN targetData
         ELSE TypedArrayStore(targetData, IndexSum(diff.indices, j, shape, 0),
                              diff.values[j + 1]),
         diff, shape, j + 1)

\* applySparseUpdate throws 'Invalid sparse diff format'
applySparseUpdateThrows(diff) ==
  ~HasField(diff, "indices") \/ ~HasField(diff, "values")

\* applySparseUpdate(targetData, diff, shape): the buffer afterwards.
applySparseUpdate(targetData, diff, shape) == SparseLoop(targetData, diff, shape, 0)

\* IsChanged with >= for >: a delta equal to the threshold counts as a change.
IsChangedAtThreshold(oldData, newData, i, threshold) ==
  Abs(newData[i + 1] - oldData[i + 1]) >= threshold

\* The first pass of generateDiff: the indices i (from 0) with
\* Math.abs(newData[i] - oldData[i]) > threshold, in ascending order.
IsChanged(oldData, newData, i, threshold) ==
  Abs(newData[i + 1] - oldData[i + 1]) > threshold

RECURSIVE ChangesFrom(_, _, _, _)
ChangesFrom(oldData, newData, threshold, i) ==
  IF i >= Len(oldData) THEN <<>>
  ELSE (IF IsChanged(oldData, newData, i, threshold) THEN <<i>> ELSE <<>>)
         \o ChangesFrom(oldData, newData, threshold, i + 1)

\* compressSparseDiff(indices, newData, oldData)
compressSparseDiff(indices, newData, oldData) ==
  [type |-> DIFF_TYPES.SPARSE,
   indices |-> indices,
   values |-> [i \in 1..Len(indices) |->
                 newData[indices[i] + 1] - oldData[indices[i] + 1]]]

\* newData.subarray(): a typed array on the buffer of newData, whose elements
\* are those of newData whenever they are read.
subarray(typedArray) == [value |-> typedArray, shared |-> TRUE]

\* newData.slice(): a new typed array that holds the elements of newData at the
\* time of the call.
slice(typedArray) == [value |-> typedArray, shared |-> FALSE]

\* createFullDiff(newData)
createFullDiff(newData) ==
  [type |-> DIFF_TYPES.DENSE, data |-> slice(newData).value]

\* The data of the diff generateDiff returned is an array on the buffer of
\* newData.
SharesNewData(diff, newData) ==
  /\ diff.type = DIFF_TYPES.DENSE
  /\ slice(newData).shared

\* SparsityAtMost with < for <=: a ratio equal to maxSparsity goes dense.
SparsityBelow(nChanges, total, maxSparsity) ==
  nChanges * maxSparsity.den < maxSparsity.num * total

\* sparsity <= maxSparsity, with sparsity = changes.length / oldData.length
SparsityAtMost(nChanges, total, maxSparsity) ==
  nChanges * maxSparsity.den <= maxSparsity.num * total

\* generateDiff(oldData, newData, options)
generateDiff(oldData, newData, options) ==
  LET changes == ChangesFrom(oldData, newData, options.threshold, 0)
  IN  IF Len(changes) = 0 THEN Null
      ELSE IF SparsityAtMost(Len(changes), Len(oldData), options.maxSparsity)
           THEN compressSparseDiff(changes, newData, oldData)
           ELSE createFullDiff(newData)

\* validateShape(data, shape) throws
validateShapeThrows(data, shape) == Len(data) # Product(shape)

\* validateDiffThrows without the check of the indices against elementCount.
validateDiffThrowsUnbounded(diff, shape) ==
  CASE diff.type = DIFF_TYPES.SPARSE ->
         \/ ~HasField(diff, "indices")
         \/ ~HasField(diff, "values")
         \/ Len(diff.values) # Len(diff.indices)
    [] diff.type = DIFF_TYPES.DENSE ->
         \/ ~HasField(diff, "data")
         \/ validateShapeThrows(diff.data, shape)
    [] OTHER -> TRUE

\* validateDiff(diff, shape) throws: its own errors, and the TypeError of
\* reading a field the diff does not have.
validateDiffThrows(diff, shape) ==
  LET elementCount == Product(shape)
  IN  CASE diff.type = DIFF_TYPES.SPARSE ->
             \/ ~HasField(diff, "indices")
             \/ \E i \in 1..Len(diff.indices) : diff.indices[i] >= elementCount
             \/ ~HasField(diff, "values")
             \/ Len(diff.values) # Len(diff.indices)
        [] diff.type = DIFF_TYPES.DENSE ->
             \/ ~HasField(diff, "data")
             \/ validateShapeThrows(diff.data, shape)
        [] OTHER -> TRUE

\* tensor.data.set(diff.data) throws a RangeError when the source is longer
\* than the target, before it writes anything.
TypedArraySetThrows(target, source) == Len(source) > Len(target)

TypedArraySet(target, source) ==
  [i \in 1..Len(target) |-> IF i <= Len(source) THEN source[i] ELSE target[i]]

\* applyTensorDiff(tensor, diff) throws
applyTensorDiffThrows(tensor, diff) ==
  \/ validateDiffThrows(diff, tensor.metadata.shape)
  \/ /\ diff.type = DIFF_TYPES.SPARSE
     /\ applySparseUpdateThrows(diff)
  \/ /\ diff.type = DIFF_TYPES.DENSE
     /\ TypedArraySetThrows(tensor.data, diff.data)

\* applyTensorDiff(tensor, diff) at time now: the tensor afterwards.  An
\* exception leaves the tensor as it is: nothing is written before the throw.
applyTensorDiff(tensor, diff, now) ==
  IF applyTensorDiffThrows(tensor, diff) THEN tensor
  ELSE [data |->
          IF diff.type = DIFF_TYPES.SPARSE
          THEN applySparseUpdate(tensor.data, diff, tensor.metadata.shape)
          ELSE TypedArraySet(tensor.data, diff.data),
        metadata |->
          [tensor.metadata EXCEPT !.version = @ + 1, !.lastUpdated = now]]


\* ------------------------------------------------------------------ state
VARIABLES
  tensor,     \* codec: the tensor object handed to applyTensorDiff
  snapshots,  \* codec: the successive dense snapshots the diffs are generated from
  options,    \* codec: the options of the generateDiff calls
  diffs,      \* codec: the diffs generated or received so far, in that order
  applied,    \* codec: one record per applyTensorDiff call, in call order
  written,    \* codec: the newData array of the last generateDiff call, as its caller has written it since
  tensors,    \* store: Map<string, Tensor>, a function on the keys present
  now,        \* Date.now()
  lastOp,     \* store: the last handler that ran and how it ended
  snapshot,   \* reader: the value a getTensorSnapshot call returned
  envelope,   \* validator: the decoded message handed to validateWebSocketMessage
  verdict,    \* validator: what validateWebSocketMessage returned for it
  sockets,    \* browser: the readyState of every WebSocket created so far
  socket,     \* wsClient.socket: an index into sockets, or 0 for null
  reconnectAttempts,  \* wsClient.reconnectAttempts
  isClosedManually,   \* wsClient.isClosedManually
  initialized,        \* wsClient.initialized
  pendingMessages,    \* wsClient.pendingMessages
  timers,       \* browser: the delays of the reconnect timers that are pending
  transmitted,  \* browser: the socket.send(payload) calls, in call order
  submitted,    \* callers: the wsClient.send(message) calls, in call order
  closeRequested,  \* callers: close() was called, and initialize() not since
  closesSinceOpen, \* browser: the close events since the last open event
  subscribers,  \* wsClient.subscribers: Map<eventType, callbacks in order>
  wsSubscribed, \* stores: the stores whose wsSubscribed flag is set
  inbox,        \* browser: the message events of the socket, in frame order
  delivered,    \* browser: the number of message events delivered to onmessage
  invoked,      \* the callback invocations so far, in order
  availableMetrics,  \* metrics store: availableMetrics
  metricData,        \* metrics store: metricData
  breakpoints        \* breakpoint store: Map<layerId, Breakpoint>

codecVars == <<tensor, snapshots, options, diffs, applied, written>>
storeVars == <<tensors, lastOp>>
readerVars == <<snapshot>>
validatorVars == <<envelope, verdict>>
sessionVars ==
  <<sockets, socket, reconnectAttempts, isClosedManually, initialized,
    pendingMessages, timers, transmitted, submitted, closeRequested,
    closesSinceOpen>>
dispatchVars ==
  <<subscribers, wsSubscribed, inbox, delivered, invoked, availableMetrics,
    metricData, breakpoints>>
clientVars == <<validatorVars, sessionVars, dispatchVars>>
vars == <<codecVars, storeVars, now, readerVars, clientVars>>

\* lastOp.message is the message of a full load, and no message otherwise.
NoMessage == [type |-> "none"]

NoOp == [op |-> "none", name |-> "", failed |-> FALSE, message |-> NoMessage]

\* The reader holds no value yet.
NoSnapshot == [name |-> "", value |-> [type |-> "none"], shared |-> FALSE]

ReaderInit == snapshot = NoSnapshot

\* Nothing was handed to the validator yet.
NotValidated == "none"
ValidatorIdle ==
  /\ envelope = NoMessage
  /\ verdict = NotValidated

\* WebSocketClient.constructor()
SessionInit ==
  /\ sockets = <<>>
  /\ socket = 0
  /\ reconnectAttempts = 0
  /\ isClosedManually = FALSE
  /\ initialized = FALSE
  /\ pendingMessages = <<>>
  /\ timers = <<>>
  /\ transmitted = <<>>
  /\ submitted = <<>>
  /\ closeRequested = FALSE
  /\ closesSinceOpen = 0

\* No subscriber, no frame, and the metrics and breakpoint stores as create()
\* leaves them.
DispatchInit ==
  /\ subscribers = <<>>
  /\ wsSubscribed = {}
  /\ inbox = <<>>
  /\ delivered = 0
  /\ invoked = <<>>
  /\ availableMetrics = <<>>
  /\ metricData = <<>>
  /\ breakpoints = <<>>

\* The client and its stores as their constructors leave them.
ClientInit ==
  /\ ValidatorIdle
  /\ SessionInit
  /\ DispatchInit


\* ------------------------------------------------- the codec on its inputs
\* A diff as it arrives in a tensor_diff message: any type, indices that may be
\* out of range, arrays of any length, and the shape it was produced against
\* (the 'shape' field of the server's diffs), here a shape with as many elements
\* as the tensor's.
WireIndices == SeqsUpTo((-1)..MaxElems, MaxDiffLen)
WireValues == SeqsUpTo(Vals, MaxDiffLen)
WireData == SeqsUpTo(Vals, MaxElems + 1)
SameCountShapes(shape) == {s \in Shapes : Product(s) = Product(shape)}
WireDiffs(shape) ==
  [type : {DIFF_TYPES.SPARSE}, indices : WireIndices, values : WireValues,
   shape : SameCountShapes(shape)]
    \cup [type : {DIFF_TYPES.DENSE}, data : WireData, shape : SameCountShapes(shape)]
    \cup [type : {DIFF_TYPES.SPARSE}, indices : {<<0>>}]
    \cup [type : {"no_change"}]

InitTensor(shape, data) ==
  [data |-> data,
   metadata |-> [version |-> 1, shape |-> shape, dtype |-> "float32",
                 device |-> "cpu", lastUpdated |-> 0]]

\* No generateDiff call was made yet.
NotWritten == [value |-> <<>>, shared |-> FALSE]

CodecInit ==
  /\ \E shape \in Shapes : \E data \in Buffers(shape) :
       /\ tensor = InitTensor(shape, data)
       /\ snapshots = <<data>>
  /\ options = DefaultOptions
  /\ diffs = <<>>
  /\ applied = <<>>
  /\ written = NotWritten
  /\ tensors = <<>>
  /\ now = 0
  /\ lastOp = NoOp
  /\ ReaderInit
  /\ ClientInit

\* The diffs of the state were produced by generateDiff (one per new snapshot).
Generated == Len(diffs) = Len(snapshots) - 1

\* generateDiff(oldData, newData, options) on the latest snapshot and a new one:
\* at most the two diffs of the snapshots A -> B -> C.
Generate ==
  /\ Generated
  /\ Len(diffs) < 2
  /\ applied = <<>>
  /\ \E newData \in Buffers(tensor.metadata.shape) : \E o \in Options :
       /\ Len(diffs) > 0 => o = options
       /\ options' = o
       /\ snapshots' = Append(snapshots, newData)
       /\ diffs' = Append(diffs, generateDiff(snapshots[Len(snapshots)], newData, o))
       /\ written' =
            [value |-> newData,
             shared |-> SharesNewData(generateDiff(snapshots[Len(snapshots)], newData, o),
                                      newData)]
  /\ UNCHANGED <<tensor, applied, tensors, now, lastOp, readerVars, clientVars>>

\* The caller of generateDiff writes an element of its newData array after the
\* call: a diff whose data is an array on the same buffer changes with it.
Write ==
  /\ Generated
  /\ Len(diffs) >= 1
  /\ applied = <<>>
  /\ \E i \in 1..Len(written.value) : \E v \in Vals :
       /\ v # written.value[i]
       /\ written' = [written EXCEPT !.value[i] = v]
       /\ diffs' = IF written.shared
                   THEN [diffs EXCEPT ![Len(diffs)].data = written'.value]
                   ELSE diffs
  /\ UNCHANGED <<tensor, snapshots, options, applied, tensors, now, lastOp, readerVars, clientVars>>

\* A diff arrives from the wire instead.
Receive ==
  /\ diffs = <<>>
  /\ \E d \in WireDiffs(tensor.metadata.shape) : diffs' = <<d>>
  /\ UNCHANGED <<tensor, snapshots, options, applied, written, tensors, now, lastOp, readerVars, clientVars>>

\* applyTensorDiff(tensor, diffs[k]), at most twice; a null diff is not sent, so
\* not applied.
Apply ==
  /\ Len(applied) < 2
  /\ \E k \in 1..Len(diffs) :
       /\ diffs[k] # Null
       /\ applied' = Append(applied,
            [k |-> k, before |-> tensor.data,
             threw |-> applyTensorDiffThrows(tensor, diffs[k])])
       /\ tensor' = applyTensorDiff(tensor, diffs[k], now)
  /\ UNCHANGED <<snapshots, options, diffs, written, tensors, now, lastOp, readerVars, clientVars>>

CodecNext == Generate \/ Receive \/ Apply \/ Write

CodecSpec == CodecInit /\ [][CodecNext]_vars


\* ------------------------------------------------------------ tensorStore
\* pruneOldTensors: (maxAge = 300000)
DefaultMaxAge == 300000
\* The instants of the clock: ages of 1, maxAge - 1, maxAge and maxAge + 1 arise.
Instants == {0, 1, DefaultMaxAge, DefaultMaxAge + 1}

\* The integers up to 2^24 are float32 values; between 2^24 and 2^25 the float32
\* values are the even integers.
Float32MaxExactInt == 16777216

\* The conversion of a number to float32 (round to nearest, ties to even), on
\* the integers up to 2^25.
Fround(x) ==
  IF Abs(x) <= Float32MaxExactInt \/ x % 2 = 0 THEN x
  ELSE IF ((x - 1) \div 2) % 2 = 0 THEN x - 1 ELSE x + 1

\* new Float32Array(message.data): a new array, each element of the given array
\* converted to float32.
Float32Array(data) == [i \in 1..Len(data) |-> Fround(data[i])]

Keys == {"attention_input", "attention"}

\* The store is driven with scalars and vectors of the extreme element values
\* (the codec's inputs above cover every shape and value), and with one dtype
\* that is not the 'float32' a missing dtype defaults to.
Dtypes == {"int32"}
StoreShapes == {<<>>, <<MaxElems>>}
StoreVals == {0, MaxVal}
StoreBuffers(shape) == [1..Product(shape) -> StoreVals]

\* The messages of the wire, as the handlers receive them.  A tensor_full comes
\* from a tensor of the process under observation: its data has one element per
\* element of its shape.
TensorFullMsgs ==
  UNION {[type : {"tensor_full"}, name : Keys, data : StoreBuffers(shape),
          shape : {shape}, dtype : Dtypes] : shape \in StoreShapes}
    \cup [type : {"tensor_full"}, name : Keys, data : {<<Float32MaxExactInt + 1>>},
          shape : {<<>>}, dtype : Dtypes]

StoreDiffs ==
  [type : {DIFF_TYPES.SPARSE}, indices : SeqsUpTo({-1, 0, MaxElems}, 1),
   values : SeqsUpTo(StoreVals, 1)]
    \cup [type : {DIFF_TYPES.DENSE}, data : SeqsUpTo(StoreVals, MaxElems)]
    \cup [type : {"no_change"}]

TensorDiffMsgs == [type : {"tensor_diff"}, name : Keys, diff : StoreDiffs]

\* tensor_update: shape and dtype are optional.
TensorUpdateMsgs ==
  [type : {"tensor_update"}, name : Keys]
    \cup [type : {"tensor_update"}, name : Keys, shape : {<<MaxElems>>}, dtype : Dtypes]


\* The tensor store as create() leaves it, and no codec call in progress.
StoreInit ==
  /\ tensors = <<>>
  /\ now = 0
  /\ lastOp = NoOp
  /\ tensor = InitTensor(<<>>, <<0>>)
  /\ snapshots = <<>>
  /\ options = DefaultOptions
  /\ diffs = <<>>
  /\ applied = <<>>
  /\ written = NotWritten
  /\ ReaderInit

Init ==
  /\ StoreInit
  /\ ClientInit

\* An object of the store that a handler replaced or deleted is no longer the
\* store's: a value that shared it keeps what it held.
Detached(snap, map) ==
  IF snap.shared /\ snap.name \notin DOMAIN map THEN [snap EXCEPT !.shared = FALSE]
  ELSE snap

\* A value that shares the store's entity object shows what a handler wrote
\* into that object (tensor.data[...] = ..., tensor.metadata.lastUpdated = ...).
Observed(snap, map) ==
  IF snap.shared /\ snap.name \in DOMAIN map THEN [snap EXCEPT !.value = map[snap.name]]
  ELSE snap

\* state.tensors.set(name, t)
MapSet(map, name, t) ==
  [k \in DOMAIN map \cup {name} |-> IF k = name THEN t ELSE map[k]]

\* handleTensorFull(message)
handleTensorFull(map, message, t) ==
  MapSet(map, message.name,
    [data |-> Float32Array(message.data),
     metadata |-> [version |-> 1, shape |-> message.shape, dtype |-> message.dtype,
                   device |-> "cpu", lastUpdated |-> t]])

HandleTensorFull ==
  \E message \in TensorFullMsgs :
    /\ tensors' = handleTensorFull(tensors, message, now)
    /\ lastOp' = [op |-> message.type, name |-> message.name, failed |-> FALSE,
                  message |-> message]
    /\ snapshot' = IF snapshot.name = message.name
                   THEN [snapshot EXCEPT !.shared = FALSE] ELSE snapshot
    /\ UNCHANGED <<now, codecVars, clientVars>>

\* The default tensor handleTensorUpdate initializes for a missing key:
\* shape: message.shape || [], dtype: message.dtype || 'float32'.
DefaultTensor(message, t) ==
  [data |-> <<>>,
   metadata |-> [version |-> 0,
                 shape |-> IF HasField(message, "shape") THEN message.shape ELSE <<>>,
                 dtype |-> IF HasField(message, "dtype") THEN message.dtype ELSE "float32",
                 device |-> "cpu", lastUpdated |-> t]]

\* let tensor = state.tensors.get(message.name); if (!tensor) { ...; set }
GetOrCreate(map, message, t) ==
  IF message.name \in DOMAIN map THEN map
  ELSE MapSet(map, message.name, DefaultTensor(message, t))

\* The try block of handleTensorUpdate throws (and the catch logs it).
DiffFails(entity, message) ==
  \/ ~HasField(message, "diff")
  \/ validateDiffThrows(message.diff, entity.metadata.shape)
  \/ applyTensorDiffThrows(entity, message.diff)

\* handleTensorUpdate(message): the tensors map afterwards.
handleTensorUpdate(map, message, t) ==
  LET created == GetOrCreate(map, message, t)
      entity == created[message.name]
  IN  IF message.type = "tensor_update"
      THEN [created EXCEPT ![message.name].metadata.lastUpdated = t]
      ELSE IF message.type = "tensor_diff"
      THEN IF DiffFails(entity, message) THEN created
           ELSE [created EXCEPT ![message.name] =
                   [applyTensorDiff(entity, message.diff, t)
                      EXCEPT !.metadata.lastUpdated = t]]
      ELSE created

HandleTensorUpdate ==
  \E message \in TensorDiffMsgs \cup TensorUpdateMsgs :
    /\ (message.type = "tensor_diff" /\ message.name \in DOMAIN tensors) =>
         tensors[message.name].metadata.version < MaxVersion
    /\ tensors' = handleTensorUpdate(tensors, message, now)
    /\ lastOp' = [op |-> message.type, name |-> message.name,
                  failed |-> /\ message.type = "tensor_diff"
                             /\ DiffFails(GetOrCreate(tensors, message, now)[message.name],
                                          message),
                  message |-> NoMessage]
    /\ snapshot' = Observed(snapshot, tensors')
    /\ UNCHANGED <<now, codecVars, clientVars>>

\* pruneOldTensors with >= for >: an entity whose age equals maxAge is removed.
pruneOldTensorsInclusive(map, maxAge, t) ==
  LET kept == {k \in DOMAIN map : ~(t - map[k].metadata.lastUpdated >= maxAge)}
  IN  [k \in kept |-> map[k]]

\* pruneOldTensors(maxAge): the tensors map afterwards.
pruneOldTensors(map, maxAge, t) ==
  LET kept == {k \in DOMAIN map : ~(t - map[k].metadata.lastUpdated > maxAge)}
  IN  [k \in kept |-> map[k]]

\* setInterval(() => useStore.getState().pruneOldTensors(), 60000)
PruneOldTensors ==
  /\ tensors' = pruneOldTensors(tensors, DefaultMaxAge, now)
  /\ lastOp' = [op |-> "prune", name |-> "", failed |-> FALSE, message |-> NoMessage]
  /\ snapshot' = Detached(snapshot, tensors')
  /\ UNCHANGED <<now, codecVars, clientVars>>

\* Time passes between two events, up to one of the instants.
Passes(instants) ==
  /\ \E t \in instants :
       /\ t > now
       /\ now' = t
  /\ UNCHANGED <<tensors, lastOp, codecVars, readerVars, clientVars>>

Tick == Passes(Instants)

Next == HandleTensorFull \/ HandleTensorUpdate \/ PruneOldTensors \/ Tick

Spec == Init /\ [][Next]_vars


\* ------------------------------------------------- readers of the store
\* Not a copy: the object itself.
sameObject(obj) == [value |-> obj, shared |-> TRUE]

\* structuredClone(obj): a deep copy, which shares no object with obj.
structuredClone(obj) == [value |-> obj, shared |-> FALSE]

\* getTensorSnapshot(name): tensor ? structuredClone(tensor) : null
getTensorSnapshot(map, name) ==
  IF name \in DOMAIN map THEN structuredClone(map[name])
  ELSE [value |-> Null, shared |-> FALSE]

\* A reader calls getTensorSnapshot(name) and keeps what it returns.
GetTensorSnapshot ==
  /\ snapshot = NoSnapshot
  /\ \E name \in Keys :
       LET returned == getTensorSnapshot(tensors, name)
       IN  snapshot' = [name |-> name, value |-> returned.value,
                        shared |-> returned.shared]
  /\ UNCHANGED <<tensors, lastOp, now, codecVars, clientVars>>

\* The reader writes into the value it holds (value.data[i] = v); the store's
\* entity changes with it when the two are one object.
ModifySnapshot ==
  /\ snapshot # NoSnapshot
  /\ snapshot.value # Null
  /\ \E i \in 0..(Len(snapshot.value.data) - 1) : \E v \in StoreVals :
       /\ v # snapshot.value.data[i + 1]
       /\ snapshot' = [snapshot EXCEPT !.value.data = TypedArrayStore(@, i, v)]
  /\ tensors' = IF snapshot.shared
                THEN [tensors EXCEPT ![snapshot.name] = snapshot'.value]
                ELSE tensors
  /\ UNCHANGED <<lastOp, now, codecVars, clientVars>>

\* The store of the reader's scenario: one tensor, a scalar, under ReaderKey.
ReaderKey == "attention"
InReaderScope ==
  \A k \in DOMAIN tensors' :
    k = ReaderKey /\ tensors'[k].metadata.shape = <<>>

ReaderNext ==
  \/ GetTensorSnapshot
  \/ ModifySnapshot
  \/ HandleTensorFull /\ InReaderScope
  \/ HandleTensorUpdate /\ InReaderScope
  \/ PruneOldTensors
  \/ Tick

ReaderSpec == Init /\ [][ReaderNext]_vars


\* ------------------------------------------------------ validationHelpers
\* The fields an envelope can carry besides its type.
EnvelopeFields ==
  {"name", "data", "shape", "dtype", "diff", "value", "timestamp", "tensorData",
   "tensor"}
EnvelopeTypes ==
  {"tensor_full", "tensor_diff", "tensor_update", "metric_update", "breakpoint_hit",
   "breakpoint_update"}

\* A decoded envelope: an object with the given own properties.
Envelope(type, fields) ==
  [f \in fields \cup {"type"} |-> IF f = "type" THEN type ELSE f]
Envelopes ==
  {Envelope(type, fields) : type \in EnvelopeTypes, fields \in SUBSET EnvelopeFields}
    \cup {[f \in fields |-> f] : fields \in SUBSET {"name", "data"}}

\* validateWebSocketMessage(message)
validateWebSocketMessage(message) ==
  LET types == {"tensor_update", "breakpoint_hit", "metric_update"}
      required == [tensor_update |-> {"type", "name", "data"},
                   breakpoint_hit |-> {"type", "name", "tensor"},
                   metric_update |-> {"type", "name", "value", "timestamp"}]
  IN  IF ~HasField(message, "type") THEN FALSE
      ELSE IF message.type \notin types THEN FALSE
      ELSE \A k \in required[message.type] : HasField(message, k)

ValidatorInit ==
  /\ StoreInit
  /\ SessionInit
  /\ DispatchInit
  /\ envelope \in Envelopes
  /\ verdict = NotValidated

\* The validator is called on the envelope.
Validate ==
  /\ verdict = NotValidated
  /\ verdict' = IF validateWebSocketMessage(envelope) THEN "accept" ELSE "reject"
  /\ UNCHANGED <<envelope, codecVars, storeVars, now, readerVars, sessionVars, dispatchVars>>

ValidatorNext == Validate

ValidatorSpec == ValidatorInit /\ [][ValidatorNext]_vars


\* ---------------------------------------------- wsClient: the connection
\* this.maxReconnectAttempts = 5
maxReconnectAttempts == 5

\* WebSocket.readyState
CONNECTING == "CONNECTING"
OPEN == "OPEN"
CLOSING == "CLOSING"
CLOSED == "CLOSED"

\* this.socket && this.socket.readyState === WebSocket.OPEN
SocketIsOpen(sock, socks) == sock # 0 /\ socks[sock] = OPEN

\* JSON.stringify(message): the text of the message.
JSONstringify(message) == [json |-> message]

\* send(message): the pending queue and the socket.send calls afterwards.
send(pending, sent, sock, socks, message) ==
  IF SocketIsOpen(sock, socks)
  THEN [pendingMessages |-> pending,
        transmitted |-> Append(sent, [socket |-> sock, payload |-> JSONstringify(message)])]
  ELSE [pendingMessages |-> Append(pending, message), transmitted |-> sent]

\* The while loop of flushPendingMessages on an open socket: shift, send.
RECURSIVE FlushLoop(_, _, _, _)
FlushLoop(pending, sent, sock, socks) ==
  IF Len(pending) = 0 THEN [pendingMessages |-> pending, transmitted |-> sent]
  ELSE LET msg == Head(pending)
           after == send(Tail(pending), sent, sock, socks, msg)
       IN  FlushLoop(after.pendingMessages, after.transmitted, sock, socks)

\* while (this.pendingMessages.length > 0) never ends when send() puts every
\* message back, that is when there are messages and the socket is not open.
FlushDiverges(pending, sock, socks) ==
  Len(pending) > 0 /\ ~SocketIsOpen(sock, socks)

\* The queue taken from its newest message: pop instead of shift.
flushNewestFirst(pending, sent, sock, socks) ==
  FlushLoop([i \in 1..Len(pending) |-> pending[Len(pending) + 1 - i]], sent, sock, socks)

\* Only the oldest message is taken from the queue: if instead of while.
flushOldestOnly(pending, sent, sock, socks) ==
  IF Len(pending) = 0 THEN [pendingMessages |-> pending, transmitted |-> sent]
  ELSE send(Tail(pending), sent, sock, socks, Head(pending))

\* flushPendingMessages()
flushPendingMessages(pending, sent, sock, socks) ==
  FlushLoop(pending, sent, sock, socks)

\* The delay computed after this.reconnectAttempts++.
ReconnectDelayAfterIncrement(attempts) ==
  LET backoff == 1000 * (2 ^ (attempts + 1))
  IN  IF backoff < 30000 THEN backoff ELSE 30000

\* Math.min(1000 * Math.pow(2, this.reconnectAttempts), 30000)
ReconnectDelay(attempts) ==
  LET backoff == 1000 * (2 ^ attempts)
  IN  IF backoff < 30000 THEN backoff ELSE 30000

\* connect(): the sockets and this.socket afterwards.
connect(socks, sock, closedManually) ==
  IF sock # 0 \/ closedManually THEN [sockets |-> socks, socket |-> sock]
  ELSE [sockets |-> Append(socks, CONNECTING), socket |-> Len(socks) + 1]

\* connect() would create one WebSocket more than the model holds.
ConnectWithinBound(socks, sock, closedManually) ==
  (sock = 0 /\ ~closedManually) => Len(socks) < MaxSockets

\* initialize()
Initialize ==
  /\ initialized \/ ConnectWithinBound(sockets, socket, FALSE)
  /\ IF initialized
     THEN UNCHANGED <<sockets, socket, isClosedManually, initialized>>
     ELSE /\ initialized' = TRUE
          /\ isClosedManually' = FALSE
          /\ sockets' = connect(sockets, socket, FALSE).sockets
          /\ socket' = connect(sockets, socket, FALSE).socket
  /\ UNCHANGED <<reconnectAttempts, pendingMessages, timers, transmitted, submitted>>
  /\ closeRequested' = FALSE
  /\ UNCHANGED closesSinceOpen
  /\ UNCHANGED <<validatorVars, dispatchVars, codecVars, storeVars, now, readerVars>>

\* The browser opens a socket and fires its open event: handleOpen().
HandleOpen ==
  \E s \in DOMAIN sockets :
    /\ sockets[s] = CONNECTING
    /\ sockets' = [sockets EXCEPT ![s] = OPEN]
    /\ reconnectAttempts' = 3
    /\ ~FlushDiverges(pendingMessages, socket, sockets')
    /\ LET flushed == flushPendingMessages(pendingMessages, transmitted, socket, sockets')
       IN  /\ pendingMessages' = flushed.pendingMessages
           /\ transmitted' = flushed.transmitted
    /\ UNCHANGED <<socket, isClosedManually, initialized, timers, submitted>>
    /\ closesSinceOpen' = 0
    /\ UNCHANGED closeRequested
    /\ UNCHANGED <<validatorVars, dispatchVars, codecVars, storeVars, now, readerVars>>

\* The closing handshake of an open socket starts: readyState is CLOSING.
SocketClosing ==
  \E s \in DOMAIN sockets :
    /\ sockets[s] = OPEN
    /\ sockets' = [sockets EXCEPT ![s] = CLOSING]
    /\ UNCHANGED <<socket, reconnectAttempts, isClosedManually, initialized,
                   pendingMessages, timers, transmitted, submitted>>
    /\ UNCHANGED <<closeRequested, closesSinceOpen>>
    /\ UNCHANGED <<validatorVars, dispatchVars, codecVars, storeVars, now, readerVars>>

\* The comparison with <= : one reconnect more.
ReconnectScheduledOnceMore(closedManually, attempts) ==
  ~closedManually /\ attempts <= maxReconnectAttempts

\* scheduleReconnect() takes place in handleClose(event).
ReconnectScheduled(closedManually, attempts) ==
  ~closedManually /\ attempts < maxReconnectAttempts

\* The browser closes a socket (the connection failed, dropped or was closed by
\* the server) and fires its close event: handleClose(event).
HandleClose ==
  \E s \in DOMAIN sockets :
    /\ sockets[s] # CLOSED
    /\ sockets' = [sockets EXCEPT ![s] = CLOSED]
    /\ socket' = 0
    /\ IF ReconnectScheduled(isClosedManually, reconnectAttempts)
       THEN /\ timers' = Append(timers, ReconnectDelay(reconnectAttempts))
            /\ reconnectAttempts' = reconnectAttempts + 1
       ELSE UNCHANGED <<timers, reconnectAttempts>>
    /\ UNCHANGED <<isClosedManually, initialized, pendingMessages, transmitted, submitted>>
    /\ closesSinceOpen' = closesSinceOpen + 1
    /\ UNCHANGED closeRequested
    /\ UNCHANGED <<validatorVars, dispatchVars, codecVars, storeVars, now, readerVars>>

\* A reconnect timer fires: setTimeout(() => this.connect(), delay).
ReconnectTimer ==
  \E t \in DOMAIN timers :
    /\ ConnectWithinBound(sockets, socket, isClosedManually)
    /\ timers' = [i \in 1..(Len(timers) - 1) |-> IF i < t THEN timers[i] ELSE timers[i + 1]]
    /\ sockets' = connect(sockets, socket, isClosedManually).sockets
    /\ socket' = connect(sockets, socket, isClosedManually).socket
    /\ UNCHANGED <<reconnectAttempts, isClosedManually, initialized, pendingMessages,
                   transmitted, submitted>>
    /\ UNCHANGED <<closeRequested, closesSinceOpen>>
    /\ UNCHANGED <<validatorVars, dispatchVars, codecVars, storeVars, now, readerVars>>

\* A caller passes a message to send(message).  The messages are numbered in
\* the order of the calls.
Send ==
  /\ Len(submitted) < MaxSends
  /\ LET message == [type |-> "breakpoint_update", id |-> Len(submitted) + 1]
         after == send(pendingMessages, transmitted, socket, sockets, message)
     IN  /\ submitted' = Append(submitted, [message |-> message,
                                            queued |-> ~SocketIsOpen(socket, sockets)])
         /\ pendingMessages' = after.pendingMessages
         /\ transmitted' = after.transmitted
  /\ UNCHANGED <<sockets, socket, reconnectAttempts, isClosedManually, initialized, timers>>
  /\ UNCHANGED <<closeRequested, closesSinceOpen>>
  /\ UNCHANGED <<validatorVars, dispatchVars, codecVars, storeVars, now, readerVars>>

\* close(): this.isClosedManually = false, and nothing else.
Close ==
  /\ isClosedManually' = FALSE
  /\ UNCHANGED <<sockets, socket, reconnectAttempts, initialized, pendingMessages,
                 timers, transmitted, submitted>>
  /\ closeRequested' = TRUE
  /\ UNCHANGED closesSinceOpen
  /\ UNCHANGED <<validatorVars, dispatchVars, codecVars, storeVars, now, readerVars>>

SessionNext ==
  \/ Initialize
  \/ HandleOpen
  \/ SocketClosing
  \/ HandleClose
  \/ ReconnectTimer
  \/ Send
  \/ Close

SessionSpec == Init /\ [][SessionNext]_vars

\* The session while the server cannot be reached: every connection attempt
\* fails, no socket opens.
UnreachableNext ==
  \/ Initialize
  \/ HandleClose
  \/ ReconnectTimer
  \/ Send
  \/ Close

UnreachableSpec == Init /\ [][UnreachableNext]_vars


\* --------------------------------- wsClient: the first class of the file
\* The file declares WebSocketClient twice.  The first class has no
\* isClosedManually and no initialized field (the variables keep the values of
\* SessionInit); its send, flushPendingMessages, scheduleReconnect and the test
\* in connect() read as in the second class.

\* initialize(): this.connect(), on every call.
EarlierInitialize ==
  /\ ConnectWithinBound(sockets, socket, FALSE)
  /\ sockets' = connect(sockets, socket, FALSE).sockets
  /\ socket' = connect(sockets, socket, FALSE).socket
  /\ UNCHANGED <<reconnectAttempts, isClosedManually, initialized, pendingMessages,
                 timers, transmitted, submitted>>
  /\ closeRequested' = FALSE
  /\ UNCHANGED closesSinceOpen
  /\ UNCHANGED <<validatorVars, dispatchVars, codecVars, storeVars, now, readerVars>>

\* The open event of a socket: handleOpen() sets reconnectAttempts to 0 and
\* flushes the queue.
EarlierHandleOpen ==
  \E s \in DOMAIN sockets :
    /\ sockets[s] = CONNECTING
    /\ sockets' = [sockets EXCEPT ![s] = OPEN]
    /\ reconnectAttempts' = 0
    /\ ~FlushDiverges(pendingMessages, socket, sockets')
    /\ LET flushed == flushPendingMessages(pendingMessages, transmitted, socket, sockets')
       IN  /\ pendingMessages' = flushed.pendingMessages
           /\ transmitted' = flushed.transmitted
    /\ UNCHANGED <<socket, isClosedManually, initialized, timers, submitted>>
    /\ closesSinceOpen' = 0
    /\ UNCHANGED closeRequested
    /\ UNCHANGED <<validatorVars, dispatchVars, codecVars, storeVars, now, readerVars>>

\* The close event of a socket: handleClose(event) clears this.socket and
\* schedules a reconnect if (!event.wasClean && reconnectAttempts < max).
EarlierHandleClose ==
  \E s \in DOMAIN sockets : \E wasClean \in BOOLEAN :
    /\ sockets[s] # CLOSED
    /\ sockets' = [sockets EXCEPT ![s] = CLOSED]
    /\ socket' = 0
    /\ IF ReconnectScheduled(wasClean, reconnectAttempts)
       THEN /\ timers' = Append(timers, ReconnectDelay(reconnectAttempts))
            /\ reconnectAttempts' = reconnectAttempts + 1
       ELSE UNCHANGED <<timers, reconnectAttempts>>
    /\ UNCHANGED <<isClosedManually, initialized, pendingMessages, transmitted, submitted>>
    /\ closesSinceOpen' = closesSinceOpen + 1
    /\ UNCHANGED closeRequested
    /\ UNCHANGED <<validatorVars, dispatchVars, codecVars, storeVars, now, readerVars>>

\* close(): if (this.socket) { this.socket.close(); this.socket = null; }.
\* socket.close() starts the closing handshake (readyState CLOSING); the close
\* event follows later.
EarlierClose ==
  /\ IF socket # 0
     THEN /\ sockets' = [sockets EXCEPT ![socket] = IF @ = CLOSED THEN @ ELSE CLOSING]
          /\ socket' = 0
     ELSE UNCHANGED <<sockets, socket>>
  /\ UNCHANGED <<reconnectAttempts, isClosedManually, initialized, pendingMessages,
                 timers, transmitted, submitted>>
  /\ closeRequested' = TRUE
  /\ UNCHANGED closesSinceOpen
  /\ UNCHANGED <<validatorVars, dispatchVars, codecVars, storeVars, now, readerVars>>

\* The connection of the first class, while no caller sends a message.
EarlierSessionNext ==
  \/ EarlierInitialize
  \/ EarlierHandleOpen
  \/ SocketClosing
  \/ EarlierHandleClose
  \/ ReconnectTimer
  \/ EarlierClose

EarlierSessionSpec == Init /\ [][EarlierSessionNext]_vars


\* ------------------------------------------------ wsClient: the dispatch
\* this.subscribers.get(eventType) || []
Handlers(subs, eventType) ==
  IF eventType \in DOMAIN subs THEN subs[eventType] ELSE <<>>

\* subscribe(eventType, callback): the subscribers afterwards.
subscribe(subs, eventType, callback) ==
  MapSet(subs, eventType, Append(Handlers(subs, eventType), callback))

\* unsubscribe(eventType, callback): filter(h => h !== callback)
unsubscribe(subs, eventType, callback) ==
  MapSet(subs, eventType, SelectSeq(Handlers(subs, eventType), LAMBDA h : h # callback))

\* The callbacks the stores register, each store in one go when its listener
\* first runs, and the event type of each.
TensorFullCallback == "tensorStore.handleTensorFull"
TensorUpdateCallback == "tensorStore.handleTensorUpdate"
MetricCallback == "metricsStore.addMetricData"
BreakpointCallback == "breakpointStore.handleBreakpointHit"
StoreSubscriptions ==
  [tensorStore |-> <<[type |-> "tensor_full", callback |-> TensorFullCallback],
                     [type |-> "tensor_diff", callback |-> TensorUpdateCallback],
                     [type |-> "tensor_update", callback |-> TensorUpdateCallback]>>,
   metricsStore |-> <<[type |-> "metric_update", callback |-> MetricCallback]>>,
   breakpointStore |-> <<[type |-> "breakpoint_hit", callback |-> BreakpointCallback]>>]

\* The callbacks of other subscribers, and the event types they subscribe to.
ObserverCallbacks == {"observerA", "observerB"}
ObservedTypes == {"metric_update"}

RECURSIVE subscribeAll(_, _)
subscribeAll(subs, list) ==
  IF Len(list) = 0 THEN subs
  ELSE subscribeAll(subscribe(subs, Head(list).type, Head(list).callback), Tail(list))

\* const MAX_DATA_POINTS = 1000
MAX_DATA_POINTS == 1000

\* The sequence is cut at its end: the newest samples are dropped.
addMetricDataKeepOldest(available, data, message) ==
  LET pushed == Append(data, [timestamp |-> message.timestamp,
                              values |-> [name |-> message.name, value |-> message.value]])
  IN  [availableMetrics |->
         IF \E i \in 1..Len(available) : available[i] = message.name THEN available
         ELSE Append(available, message.name),
       metricData |->
         IF Len(pushed) > MAX_DATA_POINTS THEN SubSeq(pushed, 1, MAX_DATA_POINTS)
         ELSE pushed]

\* addMetricData(message): availableMetrics and metricData afterwards.
addMetricData(available, data, message) ==
  LET pushed == Append(data, [timestamp |-> message.timestamp,
                              values |-> [name |-> message.name, value |-> message.value]])
  IN  [availableMetrics |->
         IF \E i \in 1..Len(available) : available[i] = message.name THEN available
         ELSE Append(available, message.name),
       metricData |->
         IF Len(pushed) > MAX_DATA_POINTS
         THEN SubSeq(pushed, Len(pushed) - MAX_DATA_POINTS + 1, Len(pushed))
         ELSE pushed]

\* The comparison with <= : a sample of 5 minutes is kept.
pruneDataInclusive(data, t) ==
  SelectSeq(data, LAMBDA entry : t - entry.timestamp <= 300000)

\* pruneData(): the samples whose age is below 5 minutes.
pruneData(data, t) == SelectSeq(data, LAMBDA entry : t - entry.timestamp < 300000)

\* handleBreakpointHit(message) of the breakpoint store: the map afterwards.
handleBreakpointHit(map, message, t) ==
  IF HasField(message, "layerId") /\ message.layerId \in DOMAIN map
       /\ map[message.layerId].enabled
  THEN [map EXCEPT ![message.layerId] =
          [@ EXCEPT !.hits = @ + 1, !.lastHit = t,
                    !.lastTensor = IF HasField(message, "tensorData")
                                   THEN message.tensorData ELSE "undefined"]]
  ELSE map

\* The state of the three stores.
Stores == [tensors |-> tensors, availableMetrics |-> availableMetrics,
           metricData |-> metricData, breakpoints |-> breakpoints]

\* handler(data): the stores after the callback ran.
Call(callback, message, st, t) ==
  CASE callback = TensorFullCallback ->
         [st EXCEPT !.tensors = handleTensorFull(@, message, t)]
    [] callback = TensorUpdateCallback ->
         [st EXCEPT !.tensors = handleTensorUpdate(@, message, t)]
    [] callback = MetricCallback ->
         IF validateWebSocketMessage(message) /\ message.type = "metric_update"
         THEN LET added == addMetricData(st.availableMetrics, st.metricData, message)
              IN  [st EXCEPT !.availableMetrics = added.availableMetrics,
                             !.metricData = added.metricData]
         ELSE st
    [] callback = BreakpointCallback ->
         [st EXCEPT !.breakpoints = handleBreakpointHit(@, message, t)]
    [] OTHER -> st

\* handlers.forEach(handler => handler(data)): the stores and the invocations
\* afterwards.
RECURSIVE forEachHandler(_, _, _, _, _, _)
forEachHandler(handlers, message, st, log, seq, t) ==
  IF Len(handlers) = 0 THEN [stores |-> st, invoked |-> log]
  ELSE forEachHandler(Tail(handlers), message, Call(Head(handlers), message, st, t),
                      Append(log, [callback |-> Head(handlers), frame |-> seq]), seq, t)

\* The handlers taken from the last one registered.
notifyNewestFirst(subs, eventType, message, st, log, seq, t) ==
  LET handlers == Handlers(subs, eventType)
  IN  forEachHandler([i \in 1..Len(handlers) |-> handlers[Len(handlers) + 1 - i]],
                     message, st, log, seq, t)

\* notifySubscribers(eventType, data)
notifySubscribers(subs, eventType, message, st, log, seq, t) ==
  forEachHandler(Handlers(subs, eventType), message, st, log, seq, t)

\* event.data that is not the text of a JSON value (a binary frame arrives as
\* a Blob, binaryType being left at its default).
Undecodable == [garbage |-> TRUE]

\* parseMessage(data): JSON.parse(data), or null when it throws.
parseMessage(data) == IF HasField(data, "json") THEN data.json ELSE Null

\* Only a message that is null is dropped.
DroppedIfNull(message) == message = Null

\* if (!message || !validateWebSocketMessage(message)) return;
Dropped(message) == message = Null \/ ~validateWebSocketMessage(message)

\* handleMessage(event): the stores and the invocations afterwards.
handleMessage(data, subs, st, log, seq, t) ==
  LET message == parseMessage(data)
  IN  IF Dropped(message) THEN [stores |-> st, invoked |-> log]
      ELSE notifySubscribers(subs, message.type, message, st, log, seq, t)

\* The frames of the connection: the text of an envelope, or no JSON text.
FrameMessages ==
  {[type |-> "tensor_update", name |-> "attention", data |-> <<0>>],
   [type |-> "metric_update", name |-> "loss", value |-> 1, timestamp |-> 0],
   [type |-> "metric_update", name |-> "loss", value |-> 1],
   [type |-> "breakpoint_hit", name |-> "layer1", layerId |-> "layer1",
    tensor |-> <<0>>, tensorData |-> <<0>>]}
Frames == {JSONstringify(message) : message \in FrameMessages} \cup {Undecodable}

\* The session after initialize() and the open event of its socket.
Connected ==
  /\ sockets = <<OPEN>>
  /\ socket = 1
  /\ reconnectAttempts = 3
  /\ isClosedManually = FALSE
  /\ initialized = TRUE
  /\ pendingMessages = <<>>
  /\ timers = <<>>
  /\ transmitted = <<>>
  /\ submitted = <<>>
  /\ closeRequested = FALSE
  /\ closesSinceOpen = 0

\* addBreakpoint('layer1', condition) of the breakpoint store, with a condition
\* that validateConditionSyntax accepts.
OneBreakpoint ==
  [layer1 |-> [condition |-> "1 })(0); (function(tensor) { return 1", hits |-> 0,
               enabled |-> TRUE, created |-> 0, lastHit |-> NoHit,
               lastTensor |-> Null]]

\* An open session, no subscriber yet, and one breakpoint added.
DispatchOpen ==
  /\ StoreInit
  /\ ValidatorIdle
  /\ Connected
  /\ subscribers = <<>>
  /\ wsSubscribed = {}
  /\ inbox = <<>>
  /\ delivered = 0
  /\ invoked = <<>>
  /\ availableMetrics = <<>>
  /\ metricData = <<>>
  /\ breakpoints = OneBreakpoint

\* The listener a store passed to useStore.subscribe runs for the first time
\* (the store's state changed): it subscribes the store's callbacks.
StoreSubscribes ==
  \E store \in DOMAIN StoreSubscriptions :
    /\ store \notin wsSubscribed
    /\ wsSubscribed' = wsSubscribed \cup {store}
    /\ subscribers' = subscribeAll(subscribers, StoreSubscriptions[store])
    /\ UNCHANGED <<inbox, delivered, invoked, availableMetrics, metricData, breakpoints>>
    /\ UNCHANGED <<validatorVars, sessionVars, codecVars, storeVars, now, readerVars>>

\* The observer callbacks registered so far.
ObserverCount ==
  LET types == DOMAIN subscribers
      count[T \in SUBSET types] ==
        IF T = {} THEN 0
        ELSE LET type == CHOOSE x \in T : TRUE
             IN  Len(SelectSeq(subscribers[type], LAMBDA h : h \in ObserverCallbacks))
                   + count[T \ {type}]
  IN  count[types]

\* wsClient.subscribe(eventType, callback) by another subscriber.
Subscribe ==
  \E eventType \in ObservedTypes : \E callback \in ObserverCallbacks :
    /\ ObserverCount < MaxObservers
    /\ subscribers' = subscribe(subscribers, eventType, callback)
    /\ UNCHANGED <<wsSubscribed, inbox, delivered, invoked, availableMetrics,
                   metricData, breakpoints>>
    /\ UNCHANGED <<validatorVars, sessionVars, codecVars, storeVars, now, readerVars>>

\* The function subscribe() returned is called: unsubscribe(eventType, callback).
Unsubscribe ==
  \E eventType \in ObservedTypes : \E callback \in ObserverCallbacks :
    /\ \E i \in 1..Len(Handlers(subscribers, eventType)) :
         subscribers[eventType][i] = callback
    /\ subscribers' = unsubscribe(subscribers, eventType, callback)
    /\ UNCHANGED <<wsSubscribed, inbox, delivered, invoked, availableMetrics,
                   metricData, breakpoints>>
    /\ UNCHANGED <<validatorVars, sessionVars, codecVars, storeVars, now, readerVars>>

\* The open connection produces a frame: its message event is queued.
Produces(frames) ==
  /\ SocketIsOpen(socket, sockets)
  /\ Len(inbox) < MaxFrames
  /\ \E data \in frames :
       inbox' = Append(inbox, [seq |-> Len(inbox) + 1, data |-> data])
  /\ UNCHANGED <<subscribers, wsSubscribed, delivered, invoked, availableMetrics,
                 metricData, breakpoints>>
  /\ UNCHANGED <<validatorVars, sessionVars, codecVars, storeVars, now, readerVars>>

ConnectionProduces == Produces(Frames)

\* The newest message event.
NewestFrame(events, n) == events[Len(events)]

\* The browser delivers the message events of a socket in the order of the
\* frames: socket.onmessage runs for the oldest one of those not yet delivered.
NextFrame(events, n) == events[n + 1]

\* this.socket.onmessage: handleMessage(event) runs to its end.
HandleMessage ==
  /\ delivered < Len(inbox)
  /\ LET event == NextFrame(inbox, delivered)
         after == handleMessage(event.data, subscribers, Stores, invoked, event.seq, now)
     IN  /\ delivered' = delivered + 1
         /\ invoked' = after.invoked
         /\ tensors' = after.stores.tensors
         /\ availableMetrics' = after.stores.availableMetrics
         /\ metricData' = after.stores.metricData
         /\ breakpoints' = after.stores.breakpoints
  /\ snapshot' = Observed(snapshot, tensors')
  /\ UNCHANGED <<subscribers, wsSubscribed, inbox, lastOp>>
  /\ UNCHANGED <<validatorVars, sessionVars, codecVars, now>>

\* setInterval(() => useStore.getState().pruneData(), PRUNE_INTERVAL)
PruneData ==
  /\ metricData' = pruneData(metricData, now)
  /\ UNCHANGED <<subscribers, wsSubscribed, inbox, delivered, invoked, availableMetrics,
                 breakpoints>>
  /\ UNCHANGED <<validatorVars, sessionVars, codecVars, storeVars, now, readerVars>>

\* Between the frames the callers send one message, and the sweeps of the
\* stores run before and after the five minutes have passed.
DispatchNext ==
  \/ StoreSubscribes
  \/ Subscribe
  \/ Unsubscribe
  \/ ConnectionProduces
  \/ HandleMessage
  \/ Send /\ Len(submitted) = 0
  \/ PruneOldTensors
  \/ PruneData
  \/ Tick /\ now' = DefaultMaxAge + 1

DispatchSpec == DispatchOpen /\ [][DispatchNext]_vars


\* ----------------------------------------------------------- metricsStore
\* A metric name is the sequence of its characters.
LowerCase ==
  {"a", "b", "c", "d", "e", "f", "g", "h", "i", "j", "k", "l", "m", "n", "o", "p",
   "q", "r", "s", "t", "u", "v", "w", "x", "y", "z"}
UpperCase ==
  {"A", "B", "C", "D", "E", "F", "G", "H", "I", "J", "K", "L", "M", "N", "O", "P",
   "Q", "R", "S", "T", "U", "V", "W", "X", "Y", "Z"}
DigitChars == {"0", "1", "2", "3", "4", "5", "6", "7", "8", "9"}

\* \w of a regular expression.
WordChars == LowerCase \cup UpperCase \cup DigitChars \cup {"_"}

\* const METRIC_NAME_REGEX = /^[a-zA-Z_][\w/-]{1,63}$/
METRIC_NAME_REGEX(name) ==
  /\ Len(name) \in 2..64
  /\ name[1] \in LowerCase \cup UpperCase \cup {"_"}
  /\ \A i \in 2..Len(name) : name[i] \in WordChars \cup {"/", "-"}

\* validateMetricName(name)
validateMetricName(name) == METRIC_NAME_REGEX(name) /\ Len(name) <= 64

\* state.availableMetrics.includes(metric)
Includes(available, metric) == \E i \in 1..Len(available) : available[i] = metric

\* The name is pushed without looking for it in the list.
addMetricsUnchecked(available, metrics) ==
  available \o SelectSeq(metrics, validateMetricName)

\* addMetrics(metrics): availableMetrics afterwards.
RECURSIVE addMetrics(_, _)
addMetrics(available, metrics) ==
  IF Len(metrics) = 0 THEN available
  ELSE LET metric == Head(metrics)
       IN  addMetrics(IF validateMetricName(metric) /\ ~Includes(available, metric)
                      THEN Append(available, metric) ELSE available,
                      Tail(metrics))

\* The names of the model: 'loss', 'acc' and 'lr', and two names that
\* validateMetricName rejects, 'x' (too short) and '9x' (starts with a digit).
LossName == <<"l", "o", "s", "s">>
AccName == <<"a", "c", "c">>
LrName == <<"l", "r">>
ShortName == <<"x">>
DigitName == <<"9", "x">>
MetricNames == {LossName, AccName, LrName, ShortName, DigitName}

\* The metric_update frames of the model, one of them without its timestamp.
MetricMessages ==
  [type : {"metric_update"}, name : {LossName, LrName}, value : {1},
   timestamp : {0, 1}]
    \cup {[type |-> "metric_update", name |-> ShortName, value |-> 1, timestamp |-> 1],
          [type |-> "metric_update", name |-> LrName, value |-> 1]}
MetricFrames == {JSONstringify(message) : message \in MetricMessages}

\* The sample addMetricData pushes for a message.
Sample(message) ==
  [timestamp |-> message.timestamp,
   values |-> [name |-> message.name, value |-> message.value]]

\* metricData after n metric_update messages at time 0: the first for 'acc',
\* the others for 'loss', the values counting the samples.
Recorded(n) ==
  [i \in 1..n |->
     Sample([name |-> IF i = 1 THEN AccName ELSE LossName, value |-> i, timestamp |-> 0])]

\* An open session with the metrics store subscribed, after
\* MAX_DATA_POINTS - 1 or MAX_DATA_POINTS samples were recorded.
MetricsOpen ==
  /\ StoreInit
  /\ ValidatorIdle
  /\ Connected
  /\ subscribers = subscribeAll(<<>>, StoreSubscriptions["metricsStore"])
  /\ wsSubscribed = {"metricsStore"}
  /\ inbox = <<>>
  /\ delivered = 0
  /\ invoked = <<>>
  /\ availableMetrics = <<AccName, LossName>>
  /\ metricData \in {Recorded(MAX_DATA_POINTS - 1), Recorded(MAX_DATA_POINTS)}
  /\ breakpoints = <<>>

\* useStore.getState().addMetrics(metrics)
AddMetrics ==
  /\ \E metrics \in SeqsUpTo(MetricNames \ {LossName}, MaxMetrics) :
       availableMetrics' = addMetrics(availableMetrics, metrics)
  /\ UNCHANGED <<subscribers, wsSubscribed, inbox, delivered, invoked, metricData,
                 breakpoints>>
  /\ UNCHANGED <<validatorVars, sessionVars, codecVars, storeVars, now, readerVars>>

MetricsNext ==
  \/ Produces(MetricFrames)
  \/ HandleMessage
  \/ AddMetrics
  \/ PruneData
  \/ Tick

MetricsSpec == MetricsOpen /\ [][MetricsNext]_vars


\* ------------------------------------------------------ validationHelpers
\* The nodes of the syntax tree Babel.parse returns.  kids are the nodes under
\* a node, in the order of its properties: the object and the property of a
\* MemberExpression, the callee and the arguments of a CallExpression.
Identifier(name) == [type |-> "Identifier", name |-> name, kids |-> <<>>]
NumericLiteral == [type |-> "NumericLiteral", name |-> "", kids |-> <<>>]
NodeOf(type, kids) == [type |-> type, name |-> "", kids |-> kids]
MemberExpression(object, property) ==
  NodeOf("MemberExpression", <<object, Identifier(property)>>)
CallExpression(callee, arguments) == NodeOf("CallExpression", <<callee>> \o arguments)
BinaryExpression(left, right) == NodeOf("BinaryExpression", <<left, right>>)

\* (function(tensor) { return <expression> }): a FunctionExpression.
FunctionExpression(expression) ==
  NodeOf("FunctionExpression",
         <<Identifier("tensor"),
           NodeOf("BlockStatement", <<NodeOf("ReturnStatement", <<expression>>)>>)>>)

\* The expressions the conditions of the model are made of.
TensorMaxAboveOne ==
  BinaryExpression(CallExpression(MemberExpression(Identifier("tensor"), "max"), <<>>),
                   NumericLiteral)
MathAbsAboveZero ==
  BinaryExpression(CallExpression(MemberExpression(Identifier("Math"), "abs"),
                                  <<NumericLiteral>>),
                   NumericLiteral)

\* The conditions of the model: the text a caller passes, and the statements
\* Babel.parse finds in `(function(tensor) { return ${condition} })`, or the
\* error it throws.  A condition that is an expression leaves one
\* statement, the function in parentheses; a condition that closes the function
\* and calls it leaves a call of the function and a second statement.
\* Babel.parse throws: a SyntaxError, or a ReferenceError where the page defines
\* no global Babel.
ParseThrows == [threw |-> TRUE, statements |-> <<>>]
Parsed(statements) == [threw |-> FALSE, statements |-> statements]
Statement(expression) ==
  [type |-> "ExpressionStatement", expression |-> expression]
Closing(expression) ==
  Parsed(<<Statement(CallExpression(FunctionExpression(expression), <<NumericLiteral>>)),
           Statement(FunctionExpression(NumericLiteral))>>)
Conditions ==
  {[text |-> "tensor.max() > 1.0",
    body |-> Parsed(<<Statement(FunctionExpression(TensorMaxAboveOne))>>)],
   [text |-> "Math.abs(1) > 0",
    body |-> Parsed(<<Statement(FunctionExpression(MathAbsAboveZero))>>)],
   [text |-> "Math.abs(1",
    body |-> ParseThrows],
   [text |-> "1 })(0); (function(tensor) { return 1",
    body |-> Closing(NumericLiteral)],
   [text |-> "Math.abs(1) > 0 })(0); (function(tensor) { return 1",
    body |-> Closing(MathAbsAboveZero)],
   [text |-> "tensor.max() > 1.0 })(0); (function(tensor) { return 1",
    body |-> Closing(TensorMaxAboveOne)]}

\* const ALLOWED_KEYWORDS = new Set([...])
ALLOWED_KEYWORDS ==
  {"return", "Math", "abs", "max", "min", "sqrt", "pow", "exp", "log", "sin", "cos",
   "tan", "sum", "mean", "std"}

\* n.object.name, and n.callee.object?.name: undefined when the node under it
\* has no name, or no object.
Undefined == "undefined"
NameOf(node) == IF node.type = "Identifier" THEN node.name ELSE Undefined
ObjectName(node) == NameOf(node.kids[1])
CalleeObjectName(node) ==
  IF node.kids[1].type = "MemberExpression" THEN ObjectName(node.kids[1]) ELSE Undefined

\* validators[node.type](node) throws.
ValidatorThrows(node) ==
  CASE node.type = "Identifier" -> node.name \notin ALLOWED_KEYWORDS
    [] node.type = "MemberExpression" -> ObjectName(node) \notin {"Math", "tensor"}
    [] node.type = "CallExpression" -> CalleeObjectName(node) # "Math"
    [] OTHER -> FALSE

\* validateConditionAST(node) throws: the validator of the node or of a node
\* under it does.
RECURSIVE validateConditionASTThrows(_)
validateConditionASTThrows(node) ==
  \/ ValidatorThrows(node)
  \/ \E i \in 1..Len(node.kids) : validateConditionASTThrows(node.kids[i])

\* parseCondition(condition) throws: Babel.parse does, or
\* ast.program.body[0].expression.callee is undefined.
parseConditionThrows(condition) ==
  \/ condition.body.threw
  \/ condition.body.statements[1].expression.type # "CallExpression"

\* parseCondition(condition): ast.program.body[0].expression.callee.body
parseCondition(condition) == condition.body.statements[1].expression.kids[1].kids[2]

\* validateConditionSyntax(condition): false when the try block throws.
validateConditionSyntax(condition) ==
  /\ ~parseConditionThrows(condition)
  /\ ~validateConditionASTThrows(parseCondition(condition))


\* -------------------------------------------------------- breakpointStore
\* The keys of the breakpoints.
LayerIds == {"layer1"}

\* get().sendBreakpointUpdate(layerId, action): the messages passed to
\* wsClient.send.  held is get().breakpoints, the map the store holds: inside
\* the producer of a set() call this is the map before the producer ran.
sendBreakpointUpdate(held, layerId, action) ==
  IF layerId \notin DOMAIN held THEN <<>>
  ELSE <<[type |-> "breakpoint_update", action |-> action, layerId |-> layerId,
          condition |-> IF action # "remove" THEN [text |-> held[layerId].condition]
                        ELSE Null]>>

\* get().syncBreakpoint(layerId)
syncBreakpoint(held, layerId) ==
  IF layerId \notin DOMAIN held THEN <<>>
  ELSE sendBreakpointUpdate(held, layerId,
                            IF held[layerId].enabled THEN "update" ELSE "disable")

\* The outcome of a call that threw before set().
Threw(held) == [threw |-> TRUE, breakpoints |-> held, sent |-> <<>>]

\* The call returned: the map set() commits and the messages sent meanwhile.
Returned(map, sent) == [threw |-> FALSE, breakpoints |-> map, sent |-> sent]

\* The entry is set without validateConditionSyntax.
addBreakpointUnchecked(held, layerId, condition, t) ==
  Returned(MapSet(held, layerId,
                  [condition |-> condition.text, hits |-> 0, enabled |-> TRUE,
                   created |-> t, lastHit |-> NoHit, lastTensor |-> Null]),
           syncBreakpoint(held, layerId))

\* addBreakpoint(layerId, condition)
addBreakpoint(held, layerId, condition, t) ==
  IF ~validateConditionSyntax(condition) THEN Threw(held)
  ELSE Returned(MapSet(held, layerId,
                       [condition |-> condition.text, hits |-> 0, enabled |-> TRUE,
                        created |-> t, lastHit |-> NoHit, lastTensor |-> Null]),
                syncBreakpoint(held, layerId))

\* updateBreakpoint(layerId, condition)
updateBreakpoint(held, layerId, condition) ==
  IF ~validateConditionSyntax(condition) THEN Threw(held)
  ELSE IF layerId \notin DOMAIN held THEN Returned(held, <<>>)
  ELSE Returned([held EXCEPT ![layerId].condition = condition.text],
                syncBreakpoint(held, layerId))

\* toggleBreakpoint(layerId)
toggleBreakpoint(held, layerId) ==
  IF layerId \notin DOMAIN held THEN Returned(held, <<>>)
  ELSE Returned([held EXCEPT ![layerId].enabled = ~@], syncBreakpoint(held, layerId))

\* removeBreakpoint(layerId)
removeBreakpoint(held, layerId) ==
  IF layerId \notin DOMAIN held THEN Returned(held, <<>>)
  ELSE Returned([k \in DOMAIN held \ {layerId} |-> held[k]],
                sendBreakpointUpdate(held, layerId, "remove"))

\* pruneInactiveBreakpoints: (maxAge = 604800000)
BreakpointMaxAge == 604800000

\* bp.lastHit && ...: null and 0 are falsy.
Truthy(lastHit) == lastHit # NoHit /\ lastHit # 0

\* pruneInactiveBreakpoints(maxAge): the map afterwards.
pruneInactiveBreakpoints(held, maxAge, t) ==
  LET deleted == {k \in DOMAIN held :
                    /\ Truthy(held[k].lastHit)
                    /\ t - held[k].lastHit > maxAge
                    /\ ~held[k].enabled}
  IN  [k \in DOMAIN held \ deleted |-> held[k]]

\* The instants of the breakpoint store's clock: a hit at 1 has the age maxAge
\* at the second and maxAge + 1 at the third.
BreakpointInstants == {1, BreakpointMaxAge + 1, BreakpointMaxAge + 2}

\* The arguments of a call, as lastOp records them.
CalledWith(condition) == [type |-> "call", condition |-> condition]

\* A call of an action of the breakpoint store ends: what it threw, the map
\* set() committed, and the messages it passed to wsClient.send.
Finish(op, layerId, message, outcome) ==
  /\ lastOp' = [op |-> op, name |-> layerId, failed |-> outcome.threw,
                message |-> message]
  /\ breakpoints' = outcome.breakpoints
  /\ IF Len(outcome.sent) = 0
     THEN UNCHANGED <<pendingMessages, transmitted, submitted>>
     ELSE LET after == send(pendingMessages, transmitted, socket, sockets,
                            outcome.sent[1])
          IN  /\ Len(submitted) < MaxUpdates
              /\ submitted' = Append(submitted,
                                     [message |-> outcome.sent[1],
                                      queued |-> ~SocketIsOpen(socket, sockets)])
              /\ pendingMessages' = after.pendingMessages
              /\ transmitted' = after.transmitted
  /\ UNCHANGED <<sockets, socket, reconnectAttempts, isClosedManually, initialized,
                 timers, closeRequested, closesSinceOpen>>
  /\ UNCHANGED <<subscribers, wsSubscribed, inbox, delivered, invoked, availableMetrics,
                 metricData>>
  /\ UNCHANGED <<tensors, validatorVars, codecVars, now, readerVars>>

AddBreakpoint ==
  \E layerId \in LayerIds : \E condition \in Conditions :
    Finish("addBreakpoint", layerId, CalledWith(condition),
           addBreakpoint(breakpoints, layerId, condition, now))

UpdateBreakpoint ==
  \E layerId \in LayerIds : \E condition \in Conditions :
    Finish("updateBreakpoint", layerId, CalledWith(condition),
           updateBreakpoint(breakpoints, layerId, condition))

ToggleBreakpoint ==
  \E layerId \in LayerIds :
    Finish("toggleBreakpoint", layerId, NoMessage, toggleBreakpoint(breakpoints, layerId))

RemoveBreakpoint ==
  \E layerId \in LayerIds :
    Finish("removeBreakpoint", layerId, NoMessage, removeBreakpoint(breakpoints, layerId))

\* setInterval(() => useStore.getState().pruneInactiveBreakpoints(), 3600000)
PruneInactiveBreakpoints ==
  Finish("pruneInactiveBreakpoints", "", NoMessage,
         Returned(pruneInactiveBreakpoints(breakpoints, BreakpointMaxAge, now), <<>>))

\* The breakpoint_hit frames of the model: the envelope the validator requires
\* (type, name, tensor), the same with the fields layerId and tensorData the
\* store reads, and the envelope without its tensor.
BreakpointMessages ==
  {[type |-> "breakpoint_hit", name |-> "layer1", tensor |-> <<0>>],
   [type |-> "breakpoint_hit", name |-> "layer1", layerId |-> "layer1",
    tensor |-> <<0>>, tensorData |-> <<0>>],
   [type |-> "breakpoint_hit", name |-> "layer1", tensorData |-> <<0>>]}
BreakpointFrames == {JSONstringify(message) : message \in BreakpointMessages}

\* An open session with the breakpoint store subscribed, and one breakpoint
\* added.
BreakpointOpen ==
  /\ StoreInit
  /\ ValidatorIdle
  /\ Connected
  /\ subscribers = subscribeAll(<<>>, StoreSubscriptions["breakpointStore"])
  /\ wsSubscribed = {"breakpointStore"}
  /\ inbox = <<>>
  /\ delivered = 0
  /\ invoked = <<>>
  /\ availableMetrics = <<>>
  /\ metricData = <<>>
  /\ breakpoints = OneBreakpoint

BreakpointNext ==
  \/ Produces(BreakpointFrames)
  \/ HandleMessage
  \/ AddBreakpoint
  \/ UpdateBreakpoint
  \/ ToggleBreakpoint
  \/ RemoveBreakpoint
  \/ PruneInactiveBreakpoints
  \/ Passes(BreakpointInstants)

BreakpointSpec == BreakpointOpen /\ [][BreakpointNext]_vars


\* ------------------------------------------------------ the codec's claims
\* The data model's validity of a diff against a shape: flat indices inside the
\* buffer with as many values, or a full replacement buffer.
ValidSparse(d, shape) ==
  /\ d.type = DIFF_TYPES.SPARSE
  /\ HasField(d, "indices") /\ HasField(d, "values")
  /\ Len(d.indices) = Len(d.values)
  /\ \A j \in 1..Len(d.indices) : d.indices[j] \in 0..(Product(shape) - 1)

ValidDense(d, shape) ==
  /\ d.type = DIFF_TYPES.DENSE
  /\ HasField(d, "data")
  /\ Len(d.data) = Product(shape)

\* The diff of the n-th applyTensorDiff call, and the buffer after the call.
AppliedDiff(n) == diffs[applied[n].k]
BufferAfter(n) == IF n = Len(applied) THEN tensor.data ELSE applied[n + 1].before

\* C1: round trip.  With D = generateDiff(A, B) on two buffers of one shape,
\* applyTensorDiff of D to a tensor holding A leaves the buffer equal to B, and a
\* null D means that A equals B already.
RoundTrip ==
  (Generated /\ Len(diffs) >= 1 /\ options = DefaultOptions) =>
    /\ diffs[1] = Null => snapshots[1] = snapshots[2]
    /\ (Len(applied) = 1 /\ applied[1].k = 1) => tensor.data = snapshots[2]

\* The sum of the values a sparse diff lists for the flat index i.
RECURSIVE SumAt(_, _, _)
SumAt(d, i, j) ==
  IF j > Len(d.indices) THEN 0
  ELSE (IF d.indices[j] = i THEN d.values[j] ELSE 0) + SumAt(d, i, j + 1)

\* C2: a valid sparse diff adds each value to the element at its flat index and
\* leaves the elements it does not list unchanged; a valid dense diff makes the
\* buffer equal to the diff's data.
SparseAddsDenseReplaces ==
  \A n \in 1..Len(applied) :
    LET d == AppliedDiff(n)
        shape == tensor.metadata.shape
    IN  /\ ValidSparse(d, shape) =>
             \A i \in 0..(Product(shape) - 1) :
               BufferAfter(n)[i + 1] = applied[n].before[i + 1] + SumAt(d, i, 1)
        /\ ValidDense(d, shape) => BufferAfter(n) = d.data

\* C3: non-idempotence.  A valid sparse diff with a non-zero value, applied
\* twice, leaves a buffer different from the one it leaves applied once.
NonIdempotence ==
  (Len(applied) = 2 /\ applied[1].k = applied[2].k) =>
    LET d == AppliedDiff(1)
    IN  (/\ ValidSparse(d, tensor.metadata.shape)
         /\ \E j \in 1..Len(d.values) : d.values[j] # 0)
          => tensor.data # applied[2].before

\* Two sparse diffs list a common index with different non-zero values.
TouchSameIndex(d1, d2) ==
  \E i \in 1..Len(d1.indices) : \E j \in 1..Len(d2.indices) :
    /\ d1.indices[i] = d2.indices[j]
    /\ d1.values[i] # 0 /\ d2.values[j] # 0
    /\ d1.values[i] # d2.values[j]

\* The buffer after the diffs of the state are applied in generation order to a
\* tensor holding the first snapshot.
InOrderBuffer ==
  LET t0 == InitTensor(tensor.metadata.shape, snapshots[1])
  IN  applyTensorDiff(applyTensorDiff(t0, diffs[1], now), diffs[2], now).data

\* C4: order sensitivity.  For sparse diffs D1, D2 generated from the snapshots
\* A -> B -> C that touch a common index with different non-zero values, D2 then
\* D1 applied to a tensor holding A leaves a buffer different from D1 then D2.
OrderSensitivity ==
  (/\ Generated /\ Len(diffs) = 2
   /\ Len(applied) = 2 /\ applied[1].k = 2 /\ applied[2].k = 1
   /\ diffs[1].type = DIFF_TYPES.SPARSE /\ diffs[2].type = DIFF_TYPES.SPARSE
   /\ TouchSameIndex(diffs[1], diffs[2]))
    => tensor.data # InOrderBuffer

\* Every element of the k-th snapshot is within the threshold of the next one.
WithinThreshold(k) ==
  \A i \in 1..Len(snapshots[k]) :
    Abs(snapshots[k + 1][i] - snapshots[k][i]) <= options.threshold

\* C5: no-op.  generateDiff returns null if and only if every element's absolute
\* delta is at most the threshold; a delta equal to the threshold is no change.
NoOpIffWithinThreshold ==
  Generated => \A k \in 1..Len(diffs) : (diffs[k] = Null <=> WithinThreshold(k))

\* C5's case: a null diff although an element moved by exactly the threshold.
NoOpAtThreshold ==
  /\ Generated /\ Len(diffs) >= 1 /\ diffs[1] = Null
  /\ options.threshold > 0
  /\ \E i \in 1..Len(snapshots[1]) :
       Abs(snapshots[2][i] - snapshots[1][i]) = options.threshold

\* The number of elements of the k-th snapshot whose delta exceeds the threshold.
ChangedCount(k) ==
  Cardinality({i \in 1..Len(snapshots[k]) :
                 Abs(snapshots[k + 1][i] - snapshots[k][i]) > options.threshold})

\* C6: sparsity selection.  A non-null diff is sparse if changed / total is at
\* most maxSparsity (also when equal to it) and dense otherwise.
SparsitySelection ==
  Generated =>
    \A k \in 1..Len(diffs) :
      diffs[k] # Null =>
        IF ChangedCount(k) * options.maxSparsity.den
             <= options.maxSparsity.num * Len(snapshots[k])
        THEN diffs[k].type = DIFF_TYPES.SPARSE
        ELSE diffs[k].type = DIFF_TYPES.DENSE

\* C6's case: the ratio equals maxSparsity and the diff is sparse.
SparseAtBoundary ==
  /\ Generated /\ Len(diffs) >= 1 /\ diffs[1].type = DIFF_TYPES.SPARSE
  /\ ChangedCount(1) * options.maxSparsity.den
       = options.maxSparsity.num * Len(snapshots[1])

\* The invalid diffs C7 names.
OutOfRangeIndex(d, shape) ==
  /\ d.type = DIFF_TYPES.SPARSE /\ HasField(d, "indices")
  /\ \E j \in 1..Len(d.indices) : d.indices[j] >= Product(shape)
LengthMismatch(d) ==
  /\ d.type = DIFF_TYPES.SPARSE /\ HasField(d, "indices") /\ HasField(d, "values")
  /\ Len(d.indices) # Len(d.values)
WrongDenseLength(d, shape) ==
  /\ d.type = DIFF_TYPES.DENSE /\ HasField(d, "data")
  /\ Len(d.data) # Product(shape)
UnknownType(d) == d.type \notin {DIFF_TYPES.SPARSE, DIFF_TYPES.DENSE}

\* C7: fails closed.  A diff with a sparse index >= product(shape), with indices
\* and values of different length, with a dense payload of another length than
\* product(shape), or of a type other than sparse/dense leaves the buffer as it was.
FailsClosed ==
  \A n \in 1..Len(applied) :
    LET d == AppliedDiff(n)
        shape == tensor.metadata.shape
    IN  (\/ OutOfRangeIndex(d, shape) \/ LengthMismatch(d)
         \/ WrongDenseLength(d, shape) \/ UnknownType(d))
          => BufferAfter(n) = applied[n].before

\* C7's case: a sparse diff was applied whose first pair would change element 0
\* and whose second index is out of range.
RejectedOutOfRange ==
  /\ Len(applied) = 1 /\ applied[1].threw
  /\ LET d == AppliedDiff(1)
     IN  /\ d.type = DIFF_TYPES.SPARSE /\ HasField(d, "values")
         /\ Len(d.indices) = 2 /\ Len(d.values) = 2
         /\ d.indices[1] = 0 /\ d.values[1] # applied[1].before[1]
         /\ d.indices[2] >= Product(tensor.metadata.shape)

\* C8: a diff produced against a shape other than the tensor's current shape is
\* rejected and not applied, also when both shapes have the same element count.
ShapeMismatchRejected ==
  \A n \in 1..Len(applied) :
    LET d == AppliedDiff(n)
    IN  (HasField(d, "shape") /\ d.shape # tensor.metadata.shape)
          => /\ applied[n].threw
             /\ BufferAfter(n) = applied[n].before

\* ------------------------------------------------------- the store's claims
\* C9: when a tensor_diff fails validation the store is as it was before the
\* message: the same keys, and every entity's buffer, shape, version and
\* lastUpdated, also when the message names an absent key.
FailedDiffLeavesStore ==
  [][(lastOp'.op = "tensor_diff" /\ lastOp'.failed) => tensors' = tensors]_vars

\* C10: every entity of the store has buffer.length = product(shape).
BufferLengthIsProduct ==
  \A k \in DOMAIN tensors :
    Len(tensors[k].data) = Product(tensors[k].metadata.shape)

\* C11: while a key stays in the store its entity's version never decreases,
\* whatever the handler (full load, diff, light update), and the first full load
\* of a key leaves version 1.
VersionNeverDecreases ==
  [][/\ \A k \in DOMAIN tensors \cap DOMAIN tensors' :
          tensors'[k].metadata.version >= tensors[k].metadata.version
     /\ (lastOp'.op = "tensor_full" /\ lastOp'.name \notin DOMAIN tensors)
          => tensors'[lastOp'.name].metadata.version = 1]_vars

\* C12: a diff applied to an existing entity leaves its version as it was; the
\* version of an entity that stays in the store changes only by a full load
\* that replaces it.
DiffKeepsVersion ==
  [][\A k \in DOMAIN tensors \cap DOMAIN tensors' :
       tensors'[k].metadata.version # tensors[k].metadata.version
         => (lastOp'.op = "tensor_full" /\ lastOp'.name = k)]_vars

\* C13: after handleTensorFull(message) the entity under message.name has a
\* buffer with exactly the elements of message.data, the message's shape and
\* dtype and version 1, whatever was there before; every other key is as it was.
FullLoadReplacesEntity ==
  [][lastOp'.op = "tensor_full" =>
       LET message == lastOp'.message
       IN  /\ DOMAIN tensors' = DOMAIN tensors \cup {message.name}
           /\ tensors'[message.name].data = message.data
           /\ tensors'[message.name].metadata.shape = message.shape
           /\ tensors'[message.name].metadata.dtype = message.dtype
           /\ tensors'[message.name].metadata.version = 1
           /\ \A k \in DOMAIN tensors \ {message.name} : tensors'[k] = tensors[k]]_vars

\* C14: snapshot isolation.  No handler of the store (full load, diff, light
\* update, prune) changes a value getTensorSnapshot returned, a write into that
\* value changes no entity of the store, and getTensorSnapshot returns a copy
\* of the entity, or null for an absent key.
SnapshotIsolation ==
  [][/\ (snapshot # NoSnapshot /\ <<tensors, lastOp>>' # <<tensors, lastOp>>)
          => snapshot'.value = snapshot.value
     /\ (snapshot # NoSnapshot /\ snapshot'.value # snapshot.value)
          => tensors' = tensors
     /\ (snapshot = NoSnapshot /\ snapshot' # NoSnapshot)
          => snapshot'.value = IF snapshot'.name \in DOMAIN tensors
                               THEN tensors[snapshot'.name] ELSE Null]_vars

\* C14's case: the reader holds a snapshot of an entity that a later diff or
\* full load has changed, and has written into its snapshot.
SnapshotOutlived ==
  /\ snapshot # NoSnapshot
  /\ snapshot.value # Null
  /\ snapshot.name \in DOMAIN tensors
  /\ lastOp.op \in {"tensor_diff", "tensor_full", "tensor_update"}
  /\ tensors[snapshot.name].metadata.version # snapshot.value.metadata.version
  /\ tensors[snapshot.name].data # snapshot.value.data

\* ------------------------------------------------------ the client's claims
\* The schema table: the fields an envelope of each inbound type requires.
SchemaRequired ==
  [tensor_full |-> {"name", "data", "shape", "dtype"},
   tensor_diff |-> {"name", "diff"},
   tensor_update |-> {"name"},
   metric_update |-> {"name", "value", "timestamp"},
   breakpoint_hit |-> {"name", "tensorData"}]

\* C15: an envelope of a type of the schema table is accepted by
\* validateWebSocketMessage if and only if it has every field the table
\* requires for its type.
ValidatorFollowsSchema ==
  (verdict # NotValidated /\ HasField(envelope, "type")
     /\ envelope.type \in DOMAIN SchemaRequired)
    => (verdict = "accept"
          <=> SchemaRequired[envelope.type] \subseteq DOMAIN envelope)

\* C19: whenever the connection opens (handleOpen runs) the reconnect-attempt
\* counter is 0 afterwards.
OpenResetsAttempts ==
  [][(\E s \in DOMAIN sockets : sockets[s] = CONNECTING /\ sockets'[s] = OPEN)
       => reconnectAttempts' = 0]_vars

\* The numbers of the messages transmitted, and of those pending, in order.
TransmittedIds == [i \in 1..Len(transmitted) |-> transmitted[i].payload.json.id]
PendingIds == [i \in 1..Len(pendingMessages) |-> pendingMessages[i].id]
Increasing(ids) == \A i, j \in 1..Len(ids) : i < j => ids[i] < ids[j]

\* C20: outbound FIFO.  The messages are transmitted in the order in which they
\* were passed to send(), each at most once, and a message passed to send() is
\* either transmitted or still pending, in that order, whatever the opens,
\* closes and reconnects in between.
OutboundFIFO ==
  /\ Increasing(TransmittedIds \o PendingIds)
  /\ {TransmittedIds[i] : i \in 1..Len(transmitted)}
       \cup {PendingIds[i] : i \in 1..Len(pendingMessages)} = 1..Len(submitted)

\* C20's case: two messages queued while the connection was not open were
\* transmitted by the flush of a later open, after a message sent directly on
\* an earlier connection.
FlushedAfterReconnect ==
  /\ Len(transmitted) = 3
  /\ ~submitted[1].queued /\ submitted[2].queued /\ submitted[3].queued
  /\ transmitted[1].socket < transmitted[2].socket

\* A step of handleMessage, and the decoded frame it was called with.
FrameHandled == delivered' = delivered + 1
HandledMessage == parseMessage(inbox[delivered + 1].data)

\* The frame handleMessage was called with cannot be decoded or is rejected by
\* the validator.
FrameRejected ==
  HandledMessage = Null \/ ~validateWebSocketMessage(HandledMessage)

\* C16: a frame that cannot be decoded or that the validator rejects invokes no
\* subscriber and changes no store (availableMetrics, metricData, tensors and
\* breakpoints are as before) and nothing of the connection, and the frames
\* after it are handled.
DroppedFrameHasNoEffect ==
  [][(FrameHandled /\ FrameRejected)
       => /\ invoked' = invoked
          /\ <<tensors, availableMetrics, metricData, breakpoints>>'
               = <<tensors, availableMetrics, metricData, breakpoints>>
          /\ sessionVars' = sessionVars
          /\ <<subscribers, inbox>>' = <<subscribers, inbox>>]_vars

\* C16's case: a metric_update without timestamp was dropped although the
\* metrics store and another subscriber were subscribed to metric_update, and
\* the valid metric_update after it was dispatched.
MalformedMetricDropped ==
  /\ delivered = 2
  /\ inbox[1].data = JSONstringify([type |-> "metric_update", name |-> "loss", value |-> 1])
  /\ Len(invoked) = 2
  /\ invoked[1].frame = 2
  /\ invoked[2].callback = MetricCallback
  /\ Len(metricData) = 1

FramesInConnectionOrder ==
  /\ \A i, j \in 1..Len(invoked) : i < j => invoked[i].frame <= invoked[j].frame
  /\ \A i \in 1..Len(invoked) : invoked[i].frame <= delivered
  /\ \A i \in 1..Len(inbox) : inbox[i].seq = i

\* C18's case: two frames were queued together and both changed a store, with
\* a send and a sweep of the tensor store in between.
TwoFramesApplied ==
  /\ delivered = 2
  /\ Len(invoked) >= 2
  /\ invoked[1].frame = 1
  /\ invoked[Len(invoked)].frame = 2
  /\ Len(metricData) = 1
  /\ "attention" \in DOMAIN tensors
  /\ Len(submitted) = 1
  /\ lastOp.op = "prune"

\* The sockets whose close event was handled, and the steps in which handleOpen
\* and handleClose run.
ClosedSockets(socks) == {s \in DOMAIN socks : socks[s] = CLOSED}
CloseEvent == ClosedSockets(sockets') # ClosedSockets(sockets)
OpenEvent == \E s \in DOMAIN sockets : sockets[s] = CONNECTING /\ sockets'[s] = OPEN
Min(a, b) == IF a < b THEN a ELSE b

BackoffSequence == <<2000, 4000, 8000, 16000, 30000>>

\* C22: from a fresh session whose connection attempts all fail, the delays of
\* the five successive scheduled reconnects are 2000, 4000, 8000, 16000 and
\* 30000 ms.
BackoffDelays ==
  [][Len(timers') > Len(timers) =>
       LET k == Cardinality(ClosedSockets(sockets'))
       IN  /\ k \in DOMAIN BackoffSequence
           /\ timers'[Len(timers')] = BackoffSequence[k]]_vars

\* The counter and the pending delays are within their bounds.
AttemptsAndDelaysBounded ==
  /\ reconnectAttempts \in 0..maxReconnectAttempts
  /\ \A i \in DOMAIN timers : timers[i] <= 30000

\* From a state after n closes in a row, no reconnect is scheduled and the
\* session has no socket.
StaysDisconnectedAfter(n) ==
  closesSinceOpen >= n => (Len(timers') <= Len(timers) /\ socket' = 0)

\* C23 as stated: the counter and the delays are bounded, and after
\* maxReconnectAttempts consecutive closes with no open in between no further
\* reconnect is scheduled and the session stays without a socket.
DisconnectedAfterMaxCloses ==
  /\ []AttemptsAndDelaysBounded
  /\ [][StaysDisconnectedAfter(maxReconnectAttempts)]_vars

\* C23 as amended: the counter and the delays are bounded, and after
\* maxReconnectAttempts + 1 consecutive closes with no open in between (the
\* first connection and the maxReconnectAttempts reconnects all failed) no
\* further reconnect is scheduled and the session stays without a socket.
ReconnectionBounded ==
  /\ []AttemptsAndDelaysBounded
  /\ [][StaysDisconnectedAfter(maxReconnectAttempts + 1)]_vars

\* C23's case: the sixth close in a row found the attempts used up.
AttemptsExhausted ==
  /\ closesSinceOpen = maxReconnectAttempts + 1
  /\ reconnectAttempts = maxReconnectAttempts
  /\ socket = 0
  /\ timers = <<>>

\* C24: after close() was called, and until initialize() is called again, no
\* new underlying connection is opened and no reconnect is scheduled, neither
\* by the close event of the current socket nor by a timer scheduled before.
CloseSuppressesReconnect ==
  [][(closeRequested /\ closeRequested')
       => (Len(sockets') = Len(sockets) /\ Len(timers') <= Len(timers))]_vars

\* C25: a call of initialize() after a manual close() clears the manual-close
\* flag and leaves the session with an underlying connection: a new one, or the
\* old one until its close event.
InitializeAfterCloseConnects ==
  [][(closeRequested /\ ~closeRequested')
       => (isClosedManually' = FALSE /\ socket' # 0)]_vars

\* The numbers of the messages of a sequence of socket.send calls.
PayloadIds(sent) == [i \in 1..Len(sent) |-> sent[i].payload.json.id]

\* C26: send() returns whatever the state of the connection, and the flush of
\* an open event ends and transmits every pending message: the queue is empty
\* afterwards.
FlushOnOpenEmptiesQueue ==
  /\ [](Len(submitted) < MaxSends => ENABLED Send)
  /\ [](\A s \in DOMAIN sockets :
          sockets[s] = CONNECTING
            => ~FlushDiverges(pendingMessages, socket, [sockets EXCEPT ![s] = OPEN]))
  /\ [][OpenEvent =>
          /\ pendingMessages' = <<>>
          /\ PayloadIds(transmitted') = PayloadIds(transmitted) \o PendingIds]_vars

\* C26's case: three messages were passed to send() before the first
\* connection opened, and its open event transmitted them all.
QueueFlushedOnOpen ==
  /\ Len(submitted) = 3
  /\ \A i \in 1..3 : submitted[i].queued
  /\ Len(transmitted) = 3
  /\ \A i \in 1..3 : transmitted[i].socket = 1
  /\ pendingMessages = <<>>

\* ---------------------------------------------- the metrics store's claims
\* The frame handleMessage was called with is a metric_update the validator
\* accepts: the metrics store records its sample.
MetricRecorded ==
  /\ FrameHandled
  /\ ~FrameRejected
  /\ HandledMessage.type = "metric_update"

\* The last n elements of a sequence, all of them when it has no more.
LastN(seq, n) ==
  IF Len(seq) > n THEN [i \in 1..n |-> seq[Len(seq) - n + i]] ELSE seq

\* C27: metricData never holds more than 1000 samples, and recording a sample
\* leaves the most recent 1000 samples in arrival order: added to a full
\* sequence, the sample takes the place of the oldest one.
MetricCapacity ==
  /\ [](Len(metricData) <= 1000)
  /\ [][MetricRecorded =>
          metricData' = LastN(Append(metricData, Sample(HandledMessage)), 1000)]_vars

\* C27's case: two samples were recorded in a store that held 1000: the two
\* oldest are gone and the two new ones are at the end.
OldestTrimmed ==
  /\ delivered = 2
  /\ Len(metricData) = 1000
  /\ metricData[1] = Recorded(3)[3]
  /\ metricData[998] = Recorded(1000)[1000]
  /\ metricData[999].values.name = LrName
  /\ metricData[1000].values.name = ShortName

\* A sweep of the metrics store that removes a sample.
MetricsPruned == delivered' = delivered /\ metricData' # metricData

\* C28: pruneData keeps exactly the samples whose age (now - timestamp) is
\* below 300000 ms, in their previous order: a sample of 299999 ms stays, a
\* sample of 300000 ms goes.
EvictionBoundary ==
  [][MetricsPruned =>
       metricData' = SelectSeq(metricData, LAMBDA entry : now - entry.timestamp < 300000)]_vars

\* C28's case: at time 300000 the sweep removed the samples of time 0, among
\* them the one of the first frame, and kept the sample of time 1 of the
\* second frame.
BoundarySwept ==
  /\ now = 300000
  /\ delivered = 2
  /\ inbox[1].data = JSONstringify([type |-> "metric_update", name |-> LossName,
                                    value |-> 1, timestamp |-> 0])
  /\ metricData = <<Sample([name |-> LrName, value |-> 1, timestamp |-> 1])>>

\* The names of the samples recorded so far: those of the samples the store
\* started with and those of the frames the store recorded.
RecordedNames ==
  {AccName, LossName} \cup
    {parseMessage(inbox[i].data).name :
       i \in {j \in 1..delivered :
                LET message == parseMessage(inbox[j].data)
                IN  /\ message # Null
                    /\ validateWebSocketMessage(message)
                    /\ message.type = "metric_update"}}

\* C29: availableMetrics holds no name twice, and holds the name of every
\* sample ever recorded, whether the sample is still in metricData or not.
MetricNamesRegistered ==
  /\ \A i, j \in 1..Len(availableMetrics) :
       i < j => availableMetrics[i] # availableMetrics[j]
  /\ \A name \in RecordedNames : Includes(availableMetrics, name)

\* C29's case: the sweep removed every sample, and 'lr' and 'x', registered
\* by their samples, are still known, as are 'acc' and 'loss'.
NamesOutliveSamples ==
  /\ metricData = <<>>
  /\ delivered = 2
  /\ availableMetrics = <<AccName, LossName, LrName, ShortName>>

StoreCalled(ops) ==
  /\ lastOp'.op \in ops
  /\ delivered' = delivered
  /\ lastOp' # lastOp \/ breakpoints' # breakpoints \/ submitted' # submitted

\* A step in which the breakpoint store handled a breakpoint_hit envelope that
\* the validator accepts.
HitReceived ==
  /\ FrameHandled
  /\ ~FrameRejected
  /\ HandledMessage.type = "breakpoint_hit"

\* C31: as long as a key stays in the store, its hit counter and lastHit change
\* only through a breakpoint_hit received while the breakpoint is enabled, and
\* the hit counter never decreases: toggleBreakpoint, updateBreakpoint,
\* addBreakpoint of the key and the sweep leave them as they were.
HitsChangeOnlyByHit ==
  [][\A k \in DOMAIN breakpoints \cap DOMAIN breakpoints' :
       /\ breakpoints'[k].hits >= breakpoints[k].hits
       /\ (\/ breakpoints'[k].hits # breakpoints[k].hits
           \/ breakpoints'[k].lastHit # breakpoints[k].lastHit)
            => (HitReceived /\ breakpoints[k].enabled)]_vars

\* The time since a breakpoint was last hit, or since it was created when it
\* was never hit.
BreakpointAge(bp) ==
  now - (IF bp.lastHit # NoHit THEN bp.lastHit ELSE bp.created)

\* C32: pruneInactiveBreakpoints never removes an enabled breakpoint, removes
\* every disabled breakpoint that is older than maxAge, also one that was never
\* hit, and leaves all other breakpoints unchanged.
SweepRemovesInactive ==
  [][StoreCalled({"pruneInactiveBreakpoints"}) =>
       /\ DOMAIN breakpoints' \subseteq DOMAIN breakpoints
       /\ \A k \in DOMAIN breakpoints :
            IF ~breakpoints[k].enabled /\ BreakpointAge(breakpoints[k]) > BreakpointMaxAge
            THEN k \notin DOMAIN breakpoints'
            ELSE k \in DOMAIN breakpoints' /\ breakpoints'[k] = breakpoints[k]]_vars

\* C33: when the condition fails validateConditionSyntax, addBreakpoint and
\* updateBreakpoint throw, the breakpoint map is exactly as it was and nothing
\* is passed to wsClient.send.
RejectedConditionChangesNothing ==
  [][(/\ lastOp' # lastOp
      /\ lastOp'.op \in {"addBreakpoint", "updateBreakpoint"}
      /\ ~validateConditionSyntax(lastOp'.message.condition))
       => /\ lastOp'.failed
          /\ breakpoints' = breakpoints
          /\ submitted' = submitted
          /\ transmitted' = transmitted
          /\ pendingMessages' = pendingMessages]_vars

\* C33's case: updateBreakpoint('layer1', 'tensor.max() > 1.0') threw for a
\* breakpoint that was hit once and then disabled, and the breakpoint still has
\* its condition, its hit and its flag.
RejectedUpdateThrew ==
  /\ lastOp.op = "updateBreakpoint"
  /\ lastOp.failed
  /\ lastOp.message.condition.text = "tensor.max() > 1.0"
  /\ "layer1" \in DOMAIN breakpoints
  /\ breakpoints["layer1"].condition = OneBreakpoint["layer1"].condition
  /\ breakpoints["layer1"].hits = 1
  /\ ~breakpoints["layer1"].enabled
  /\ Len(submitted) = 1

\* The message that describes the breakpoint k after a mutation.
SentFor(op, k) ==
  [type |-> "breakpoint_update",
   action |-> IF op = "removeBreakpoint" THEN "remove"
              ELSE IF op = "toggleBreakpoint" /\ ~breakpoints'[k].enabled THEN "disable"
              ELSE "update",
   layerId |-> k,
   condition |-> IF op = "removeBreakpoint" THEN Null
                 ELSE [text |-> breakpoints'[k].condition]]

\* C34: every successful breakpoint mutation passes exactly one
\* breakpoint_update to wsClient.send, which describes the state after the
\* mutation; a mutation of an absent key sends nothing.
MutationSendsState ==
  [][(/\ StoreCalled({"addBreakpoint", "updateBreakpoint", "toggleBreakpoint",
                       "removeBreakpoint"})
      /\ ~lastOp'.failed)
       => LET op == lastOp'.op
              k == lastOp'.name
          IN  IF op # "addBreakpoint" /\ k \notin DOMAIN breakpoints
              THEN submitted' = submitted
              ELSE /\ Len(submitted') = Len(submitted) + 1
                   /\ submitted'[Len(submitted')].message = SentFor(op, k)]_vars

\* The flat indices of the k-th snapshot whose delta to the next one exceeds
\* the threshold.
ChangedIndices(k) ==
  {i \in 0..(Len(snapshots[k]) - 1) :
     Abs(snapshots[k + 1][i + 1] - snapshots[k][i + 1]) > options.threshold}

AcceptedIndicesInRange ==
  \A n \in 1..Len(applied) :
    LET d == AppliedDiff(n)
        shape == tensor.metadata.shape
    IN  (d.type = DIFF_TYPES.SPARSE /\ HasField(d, "values")) =>
          /\ ~validateDiffThrows(d, shape) =>
               \A j \in 1..Len(d.indices) : d.indices[j] \in 0..(Product(shape) - 1)
          /\ (\E j \in 1..Len(d.indices) : d.indices[j] < 0) => applied[n].threw

\* C37: a tensor entity comes into existence only through a full load (a
\* tensor_diff or tensor_update that names an absent key leaves the key
\* absent), and every entity of the store has version >= 1.
EntitiesOnlyByFullLoad ==
  /\ [](\A k \in DOMAIN tensors : tensors[k].metadata.version >= 1)
  /\ [][\A k \in DOMAIN tensors' \ DOMAIN tensors :
          lastOp'.op = "tensor_full" /\ lastOp'.name = k]_vars

\* A step in which a handler of the tensor store with one of the names ops ran.
TensorStoreRan(ops) ==
  /\ lastOp'.op \in ops
  /\ lastOp' # lastOp \/ tensors' # tensors

\* C38: pruneOldTensors removes exactly the entities with
\* now - lastUpdated > maxAge (an entity whose age equals maxAge is kept) and
\* leaves every other entity as it was; a full load, an applied diff and a light
\* update set lastUpdated to the time they are received, so that an entity which
\* received one less than maxAge ago is not removed.
PruneRemovesExactlyOld ==
  /\ [][TensorStoreRan({"prune"}) =>
          /\ DOMAIN tensors' \subseteq DOMAIN tensors
          /\ \A k \in DOMAIN tensors :
               IF now - tensors[k].metadata.lastUpdated > DefaultMaxAge
               THEN k \notin DOMAIN tensors'
               ELSE k \in DOMAIN tensors' /\ tensors'[k] = tensors[k]]_vars
  /\ [][(/\ TensorStoreRan({"tensor_full", "tensor_diff", "tensor_update"})
          /\ ~lastOp'.failed)
          => /\ lastOp'.name \in DOMAIN tensors'
             /\ tensors'[lastOp'.name].metadata.lastUpdated = now]_vars

\* C38's case: the sweep ran when one entity had exactly the age maxAge, and
\* the entity is in the store.
KeptAtMaxAge ==
  /\ lastOp.op = "prune"
  /\ \E k \in DOMAIN tensors :
       /\ tensors[k].metadata.lastUpdated > 0
       /\ now - tensors[k].metadata.lastUpdated = DefaultMaxAge
  /\ Cardinality(DOMAIN tensors) = 1

\* The sockets whose handlers can still be called: every socket that has not
\* fired its close event.
LiveSockets == {s \in DOMAIN sockets : sockets[s] # CLOSED}

\* C39: at most one connection is live at any time, whatever the order of
\* initialize, close, the open and close events and the reconnect timers, and
\* the close event of a socket never clears the reference to another socket.
AtMostOneLiveSocket ==
  /\ [](Cardinality(LiveSockets) <= 1)
  /\ [][\A s \in LiveSockets :
          (sockets'[s] = CLOSED /\ socket # 0 /\ socket # s) => socket' = socket]_vars

\* The sequence without its i-th element.
WithoutAt(seq, i) ==
  [j \in 1..(Len(seq) - 1) |-> IF j < i THEN seq[j] ELSE seq[j + 1]]

\* C40: a call of the function subscribe(type, cb) returned removes one
\* registration of cb for the type and no other: every other registration for
\* the type, a second registration of cb included, stays in its order, and the
\* registrations for other types stay as they are.
UnsubscribeRemovesOne ==
  [][\A type \in DOMAIN subscribers :
       Len(subscribers'[type]) < Len(subscribers[type]) =>
         /\ \E i \in 1..Len(subscribers[type]) :
              subscribers'[type] = WithoutAt(subscribers[type], i)
         /\ \A other \in DOMAIN subscribers \ {type} :
              subscribers'[other] = subscribers[other]]_vars

====
